---- MODULE Spec2Model ----
(***************************************************************************)
(* A model of onizd's interlayer map (src/src/map.rs), of the material     *)
(* packets it stores (src/src/mat.rs) and of the request handlers of       *)
(* src/src/main.rs that act on it.                                         *)
(*                                                                         *)
(* Conventions.                                                            *)
(*  - A HashMap is a function whose DOMAIN is the set of keys present.     *)
(*  - Option<T> is a sequence: None is << >>, Some(x) is << x >>.          *)
(*  - f32 masses are counted in quarter kilograms (Gas holds 4 units,      *)
(*    Liquid 40): sums and differences of such values are exact in f32.    *)
(*    Temperatures are whole kelvins; a quotient is rounded down, and a    *)
(*    quotient by zero is the non-finite value NaN, which is sticky.       *)
(*  - A Point is the pair << x, y >>.                                      *)
(***************************************************************************)
EXTENDS Integers, Sequences, FiniteSets, TLC

VARIABLES
    energy,          \* Map.energy: HashMap<Point, u32>
    gas_packets,     \* Map.gas_packets: HashMap<Point, Vec<MatPacket>>
    liquid_packets,  \* Map.liquid_packets: HashMap<Point, Vec<MatPacket>>
    objects,         \* Map.objects: HashMap<Point, Vec<Vec<u8>>>
    registrations,   \* Map.registrations: HashMap<Point, Vec<(ClientID, String)>>
    registration_senders, \* Map.registration_senders, with the channel behind each sender
    iter_order,      \* the order in which Map.registrations is iterated
    conns,           \* per ClientID: the state of its task (client / inner_client)
    config,          \* the Invocation, and the build's overflow checks
    disk,            \* the files at the save path, its backup and its temporary
    stage,           \* true_main: "startup" until the save file is loaded, then "serving"
    last,            \* the operation performed last, its inputs and its result
    nops,            \* number of operations performed (bounded scenarios)
    total_added,     \* per point: sum of the amounts passed to add_joules
    total_spare,     \* per point: sum of the spares add_joules returned
    total_taken      \* per point: sum of the amounts sub_joules returned

mapVars == << energy, gas_packets, liquid_packets, objects, registrations >>
vars == << energy, gas_packets, liquid_packets, objects, registrations,
           registration_senders, iter_order, conns, config, disk,
           stage, last, nops, total_added, total_spare, total_taken >>

(***************************************************************************)
(* Program constants.                                                      *)
(***************************************************************************)
MAX_STORED_ENERGY == 10000
MAX_STORED_PACKETS == 10
MAX_REGISTRATIONS == 7
MAX_STORED_OBJECTS == 3

\* The integer types, narrowed to 24 bits: TLC's integers are 32 bits wide, and
\* the sums the code forms in u64 (and the model's running totals) must fit.
\* The narrowed u32 still holds MAX_STORED_ENERGY many times over.
U32_MAX == 16777215
I32_MAX == 8388607
I32_MIN == (0 - I32_MAX) - 1

(***************************************************************************)
(* Bounds of the model.                                                    *)
(***************************************************************************)
MaxEnergyOps == 3
MaxPacketOps == 3
\* invocation.max_object_size, the configured cap on an object's size in bytes.
max_object_size == 2

(***************************************************************************)
(* Helpers.                                                                *)
(***************************************************************************)
Min(a, b) == IF a <= b THEN a ELSE b
Max(a, b) == IF a >= b THEN a ELSE b

None == << >>
Some(x) == << x >>
IsSome(o) == Len(o) = 1
Unwrap(o) == o[1]

\* serde_json::Value: Null, a string, an integer literal (of any size), a
\* number that is not an integer.
Null == [null |-> TRUE]
JStr(s) == [str |-> s]
JInt(n) == [int |-> n]
JFloat == [float |-> TRUE]
JBool(b) == [bool |-> b]
JObject(fields) == [object |-> fields]
JArray(items) == [array |-> items]

\* message[key]: indexing a Value by a key it lacks gives Null.
Field(message, key) == IF key \in DOMAIN message THEN message[key] ELSE Null
IsStr(v) == "str" \in DOMAIN v
Says(v, s) == IsStr(v) /\ v.str = s

EmptyMap == [p \in {} |-> 0]
Put(map, k, v) == [p \in (DOMAIN map) \cup {k} |-> IF p = k THEN v ELSE map[p]]
Remove(map, k) == [p \in (DOMAIN map) \ {k} |-> map[p]]

Points == { <<0, 0>>, <<0, 1>> }
Phases == { "Gas", "Liquid" }

(***************************************************************************)
(* mat.rs: Phase, Germs, MatPacket.                                        *)
(***************************************************************************)
get_max_stack_size(phase) == IF phase = "Gas" THEN 4 ELSE 40

NaN == 0 - 1000000

\* A f32 quotient num / den, kept as the pair: den = 0 makes it NaN (0/0) or
\* an infinity; every comparison with a NaN is false.
Frac(num, den) == [num |-> num, den |-> den]
FracLt1(f) ==
    IF f.den = 0 THEN f.num < 0
    ELSE IF f.den > 0 THEN f.num < f.den ELSE f.num > f.den
FracGe1(f) ==
    IF f.den = 0 THEN f.num > 0
    ELSE IF f.den > 0 THEN f.num >= f.den ELSE f.num <= f.den
FracLe0(f) ==
    IF f.den = 0 THEN f.num < 0
    ELSE IF f.den > 0 THEN f.num <= 0 ELSE f.num >= 0

SatI32(n) == IF n > I32_MAX THEN I32_MAX ELSE IF n < I32_MIN THEN I32_MIN ELSE n
WrapI32(n) == ((n - I32_MIN) % (2 * (I32_MAX + 1))) + I32_MIN

\* (count as f32 * frac).ceil() as i32: a NaN casts to 0, the cast saturates.
CeilTimes(count, f) ==
    IF f.den = 0 THEN 0
    ELSE LET n == IF f.den > 0 THEN count * f.num ELSE 0 - (count * f.num)
             d == IF f.den > 0 THEN f.den ELSE 0 - f.den
         IN  SatI32(0 - ((0 - n) \div d))

maybe(g) == IF g.count = 0 THEN None ELSE Some(g)

split(g, f) ==
    IF FracGe1(f) \/ g.count = 0
    THEN << g, [id |-> g.id, count |-> 0] >>
    ELSE IF FracLe0(f)
    THEN << [id |-> g.id, count |-> 0], g >>
    ELSE LET splat == Max(CeilTimes(g.count, f), 1)
             splot == SatI32(g.count - splat)
         IN  << [id |-> g.id, count |-> splat], [id |-> g.id, count |-> splot] >>

\* b.0.count += a.count, then (b.0.maybe(), b.1.maybe()); s is b.split(frac).
GermsMergeSplit(a, s) ==
    << maybe(IF IsSome(a)
             THEN [id |-> s[1].id, count |-> WrapI32(s[1].count + Unwrap(a).count)]
             ELSE s[1]),
       maybe(s[2]) >>

GermsMergeSame(a, b, f) ==
    IF FracLe0(f) THEN << a, Some(b) >> ELSE GermsMergeSplit(a, split(b, f))

GermsMerge(a, b, f) ==
    IF ~IsSome(a) /\ ~IsSome(b) THEN << None, None >>
    ELSE IF IsSome(a) /\ ~IsSome(b) THEN << a, b >>
    ELSE IF IsSome(a) /\ Unwrap(a).id # Unwrap(b).id
    THEN IF FracLt1(f) THEN << a, b >>
         ELSE IF Unwrap(a).count = Unwrap(b).count
         THEN (IF Unwrap(a).id < Unwrap(b).id THEN << a, b >> ELSE << b, a >>)
         ELSE IF Unwrap(a).count > Unwrap(b).count THEN << a, b >>
         ELSE << b, a >>
    ELSE GermsMergeSame(a, Unwrap(b), f)

\* Germs::merge as a build runs it: b.0.count += a.count panics in a build
\* with overflow checks when the sum does not fit i32 (None), and wraps
\* around in a build without them.
GermsMergeBuilt(a, b, f, overflow_checks) ==
    IF /\ overflow_checks
       /\ IsSome(a) /\ IsSome(b) /\ Unwrap(a).id = Unwrap(b).id
       /\ ~FracLe0(f)
       /\ split(Unwrap(b), f)[1].count + Unwrap(a).count > I32_MAX
    THEN None
    ELSE Some(GermsMerge(a, b, f))
MatPacket(element, mass, temperature, germs) ==
    [element |-> element, mass |-> mass, temperature |-> temperature, germs |-> germs]

\* Mutant: the plain mean of the two temperatures, whatever the masses.
MergedTemperature_unweighted(t1, m1, t2, buff) ==
    IF t1 = NaN \/ t2 = NaN THEN NaN ELSE (t1 + t2) \div 2

\* (self.temperature * self.mass + other.temperature * buff) / (self.mass + buff)
MergedTemperature(t1, m1, t2, buff) ==
    IF t1 = NaN \/ t2 = NaN \/ m1 + buff = 0 THEN NaN
    ELSE (t1 * m1 + t2 * buff) \div (m1 + buff)

has_room(p, phase) == p.mass < get_max_stack_size(phase)
is_oversized(p, phase) == p.mass > get_max_stack_size(phase)

\* Mutant: the part of other that does not fit is dropped.
merge_result_drops_leftover(self, other, buff, leftover, germs) ==
    Some(<< MatPacket(self.element, self.mass + buff,
                      MergedTemperature(self.temperature, self.mass,
                                        other.temperature, buff),
                      germs[1]),
            None >>)

\* merge, once buff, leftover and the merged germs are known.
merge_result(self, other, buff, leftover, germs) ==
    Some(<< MatPacket(self.element, self.mass + buff,
                      MergedTemperature(self.temperature, self.mass,
                                        other.temperature, buff),
                      germs[1]),
            IF leftover > 0
            THEN Some(MatPacket(self.element, leftover, other.temperature, germs[2]))
            ELSE None >>)

merge_into(self, other, buff) ==
    merge_result(self, other, buff, other.mass - buff,
                 GermsMerge(self.germs, other.germs, Frac(buff, other.mass)))

\* Mutant: packets of different elements merge too.
merge_ignores_element(self, other, phase) ==
    IF get_max_stack_size(phase) - self.mass <= 0 THEN None
    ELSE merge_into(self, other, Min(other.mass, get_max_stack_size(phase) - self.mass))

merge(self, other, phase) ==
    IF self.element # other.element THEN None
    ELSE IF get_max_stack_size(phase) - self.mass <= 0 THEN None
    ELSE merge_into(self, other, Min(other.mass, get_max_stack_size(phase) - self.mass))

(***************************************************************************)
(* map.rs: the operations of Map, as functions of the stores they touch.   *)
(***************************************************************************)
\* add_joules: the amount stored afterwards, and the amount that did not fit.
add_joules_capped(slot, amt) == Min(MAX_STORED_ENERGY, slot + amt) % (U32_MAX + 1)
\* Mutant: the spill is computed from the amount alone, ignoring the slot.
add_joules_spill_ignores_slot(slot, amt) ==
    Max(amt - MAX_STORED_ENERGY, 0) % (U32_MAX + 1)
add_joules_spill(slot, amt) ==
    Max((slot + amt) - Min(MAX_STORED_ENERGY, slot + amt), 0) % (U32_MAX + 1)

\* sub_joules: the amount handed out, and the amount stored afterwards.
sub_joules_slosh(slot, amt) == Min(slot, amt)
\* Mutant: a request for more than is stored leaves the slot as it was.
sub_joules_rest_keeps_on_excess(slot, amt) == IF amt > slot THEN slot ELSE slot - amt
sub_joules_rest(slot, amt) == Max(slot - amt, 0)

\* add_packet on an occupied entry: the loop over the queue from index i on,
\* then the push at the end. len is the queue's length on entry.
\* Mutant: el is overwritten before the queue's length is checked.
add_packet_merged_assigns_first(vec, i, merged, spare, len) ==
    IF ~IsSome(spare)
    THEN [vec |-> [vec EXCEPT ![i] = merged], ret |-> TRUE]
    ELSE IF len >= MAX_STORED_PACKETS
    THEN [vec |-> [vec EXCEPT ![i] = merged], ret |-> FALSE]
    ELSE [vec |-> Append([vec EXCEPT ![i] = merged], Unwrap(spare)), ret |-> TRUE]

\* The arms of the match on el.merge(..) that return: merged is the new el,
\* spare the Option of the leftover packet.
add_packet_merged(vec, i, merged, spare, len) ==
    IF ~IsSome(spare)
    THEN [vec |-> [vec EXCEPT ![i] = merged], ret |-> TRUE]
    ELSE IF len >= MAX_STORED_PACKETS
    THEN [vec |-> vec, ret |-> FALSE]
    ELSE [vec |-> Append([vec EXCEPT ![i] = merged], Unwrap(spare)), ret |-> TRUE]

\* The index of the first packet from i on that has room and merges with
\* packet (the loop's continue arms skip the others); 0 when there is none.
RECURSIVE first_mergeable(_, _, _, _)
first_mergeable(vec, i, packet, phase) ==
    IF i > Len(vec) THEN 0
    ELSE IF has_room(vec[i], phase) /\ IsSome(merge(vec[i], packet, phase)) THEN i
    ELSE first_mergeable(vec, i + 1, packet, phase)

add_packet_at(vec, i, m, len) ==
    add_packet_merged(vec, i, Unwrap(m)[1], Unwrap(m)[2], len)

add_packet_found(vec, i, packet, phase, len) ==
    IF i = 0
    THEN IF len >= MAX_STORED_PACKETS
         THEN [vec |-> vec, ret |-> FALSE]
         ELSE [vec |-> Append(vec, packet), ret |-> TRUE]
    ELSE add_packet_at(vec, i, merge(vec[i], packet, phase), len)

\* Mutant: the loop over the queue is skipped, the packet goes to the end.
add_packet_scan_appends(vec, packet, phase) ==
    add_packet_found(vec, 0, packet, phase, Len(vec))
add_packet_scan(vec, packet, phase) ==
    add_packet_found(vec, first_mergeable(vec, 1, packet, phase), packet, phase, Len(vec))

\* add_packet on the store of one phase: the store afterwards and the result.
PutVec(map, loc, r) == [map |-> Put(map, loc, r.vec), ret |-> r.ret]

add_packet_in(map, loc, packet, phase) ==
    IF loc \notin DOMAIN map
    THEN [map |-> Put(map, loc, << packet >>), ret |-> TRUE]
    ELSE PutVec(map, loc, add_packet_scan(map[loc], packet, phase))

\* Mutant: the newest packet is removed (Vec::pop) instead of the oldest.
pop_packet_in_takes_last(map, loc) ==
    IF loc \notin DOMAIN map \/ Len(map[loc]) = 0
    THEN [map |-> map, ret |-> None]
    ELSE [map |-> Put(map, loc, SubSeq(map[loc], 1, Len(map[loc]) - 1)),
          ret |-> Some(map[loc][Len(map[loc])])]

\* pop_packet on the store of one phase.
pop_packet_in(map, loc) ==
    IF loc \notin DOMAIN map \/ Len(map[loc]) = 0
    THEN [map |-> map, ret |-> None]
    ELSE [map |-> Put(map, loc, Tail(map[loc])), ret |-> Some(Head(map[loc]))]

\* add_object and pop_object on the object store.
add_object_in(map, loc, object) ==
    IF loc \notin DOMAIN map
    THEN [map |-> Put(map, loc, << object >>), ret |-> TRUE]
    ELSE IF Len(map[loc]) >= MAX_STORED_OBJECTS
    THEN [map |-> map, ret |-> FALSE]
    ELSE [map |-> Put(map, loc, Append(map[loc], object)), ret |-> TRUE]

\* Mutant: the newest object is removed instead of the oldest.
pop_object_in_takes_last(map, loc) ==
    IF loc \notin DOMAIN map \/ Len(map[loc]) = 0
    THEN [map |-> map, ret |-> None]
    ELSE [map |-> Put(map, loc, SubSeq(map[loc], 1, Len(map[loc]) - 1)),
          ret |-> Some(map[loc][Len(map[loc])])]

pop_object_in(map, loc) ==
    IF loc \notin DOMAIN map \/ Len(map[loc]) = 0
    THEN [map |-> map, ret |-> None]
    ELSE [map |-> Put(map, loc, Tail(map[loc])), ret |-> Some(Head(map[loc]))]

\* register: the number of entries of client_id at the point.
CountOf(vec, client_id) == Cardinality({ i \in 1..Len(vec) : vec[i][1] = client_id })

\* Mutant: the count is compared with > instead of >=.
register_slot_off_by_one(regs, loc, slot, client_id, what) ==
    IF CountOf(slot, client_id) > MAX_REGISTRATIONS
    THEN [map |-> Put(regs, loc, slot), ret |-> FALSE]
    ELSE [map |-> Put(regs, loc, Append(slot, << client_id, what >>)), ret |-> TRUE]

register_slot(regs, loc, slot, client_id, what) ==
    IF CountOf(slot, client_id) >= MAX_REGISTRATIONS
    THEN [map |-> Put(regs, loc, slot), ret |-> FALSE]
    ELSE [map |-> Put(regs, loc, Append(slot, << client_id, what >>)), ret |-> TRUE]

register_in(regs, loc, client_id, what) ==
    register_slot(regs, loc, IF loc \in DOMAIN regs THEN regs[loc] ELSE << >>,
                  client_id, what)

\* prune: the three stores it may shrink.
\* Mutant: the entry is removed whatever it holds.
prune_energy_whatever(e, loc) == IF loc \in DOMAIN e THEN Remove(e, loc) ELSE e

prune_energy(e, loc) == IF loc \in DOMAIN e /\ e[loc] = 0 THEN Remove(e, loc) ELSE e
\* Mutant: the queue's entry is removed whatever it holds.
prune_packets_whatever(q, loc) == IF loc \in DOMAIN q THEN Remove(q, loc) ELSE q
prune_packets(q, loc) == IF loc \in DOMAIN q /\ Len(q[loc]) = 0 THEN Remove(q, loc) ELSE q

RECURSIVE PruneAllEnergy(_, _)
PruneAllEnergy(e, locs) ==
    IF locs = {} THEN e
    ELSE LET loc == CHOOSE l \in locs : TRUE
         IN  PruneAllEnergy(prune_energy(e, loc), locs \ {loc})
RECURSIVE PruneAllPackets(_, _)
PruneAllPackets(q, locs) ==
    IF locs = {} THEN q
    ELSE LET loc == CHOOSE l \in locs : TRUE
         IN  PruneAllPackets(prune_packets(q, loc), locs \ {loc})

\* unregister: the registrations afterwards, and whether the point is pruned.
unregister_vec(regs, loc, vec) ==
    IF Len(vec) = 0 THEN [map |-> Remove(regs, loc), prune |-> TRUE]
    ELSE [map |-> Put(regs, loc, vec), prune |-> FALSE]

\* Mutant: only the newest matching entry is removed.
unregister_in_removes_one(regs, loc, client_id, what) ==
    IF loc \notin DOMAIN regs THEN [map |-> regs, prune |-> TRUE]
    ELSE LET hits == { i \in 1..Len(regs[loc]) : regs[loc][i] = << client_id, what >> }
             last_hit == IF hits = {} THEN 0 ELSE CHOOSE i \in hits : \A j \in hits : j <= i
         IN  unregister_vec(regs, loc,
                            [i \in 1..(Len(regs[loc]) - (IF last_hit = 0 THEN 0 ELSE 1)) |->
                                IF last_hit = 0 \/ i < last_hit THEN regs[loc][i]
                                ELSE regs[loc][i + 1]])
\* Mutant: the entries with the name are removed whoever registered them.
unregister_in_of_anyone(regs, loc, client_id, what) ==
    IF loc \notin DOMAIN regs THEN [map |-> regs, prune |-> TRUE]
    ELSE LET keep(e) == e[2] # what
         IN  unregister_vec(regs, loc, SelectSeq(regs[loc], keep))
unregister_in(regs, loc, client_id, what) ==
    IF loc \notin DOMAIN regs THEN [map |-> regs, prune |-> TRUE]
    ELSE LET keep(e) == ~(e[1] = client_id /\ e[2] = what)
         IN  unregister_vec(regs, loc, SelectSeq(regs[loc], keep))

\* unregister_all: the registrations afterwards, and the points to prune.
\* retained is the registrations with the entries of client_id removed.
unregister_all_prunes(retained) ==
    [map |-> [loc \in { l \in DOMAIN retained : Len(retained[l]) > 0 } |-> retained[loc]],
     prunes |-> { l \in DOMAIN retained : Len(retained[l]) = 0 }]

unregister_all_in(regs, client_id) ==
    LET keep(e) == e[1] # client_id
    IN  unregister_all_prunes([loc \in DOMAIN regs |-> SelectSeq(regs[loc], keep)])

(***************************************************************************)
(* map.rs: RegSender and the events of the registration fan-out. An event  *)
(* is << polarity, point, name >>. A sender is kept with the channel it    *)
(* feeds: id is the client whose inner_client holds the receiver, open     *)
(* tells whether that receiver still exists, queue is what was sent and    *)
(* not yet received, and heard is everything that was ever sent on it.     *)
(* A HashMap is iterated in an order the program does not choose: order    *)
(* is the sequence of points in which self.registrations is visited.       *)
(***************************************************************************)
Orders ==
    { o \in [1..Cardinality(Points) -> Points] :
        \A p \in Points : \E i \in 1..Cardinality(Points) : o[i] = p }

Event(polarity, loc, what) == << polarity, loc, what >>

IsOpen(ch) == ch.open
Deliver(ch, was) == [ch EXCEPT !.queue = Append(@, was), !.heard = Append(@, was)]
DeliverAll(vec, was) == [i \in 1..Len(vec) |-> Deliver(vec[i], was)]

\* RegSender::send: a sender whose receiver is gone is removed.
\* Mutant: the loop stops short of the first sender.
RegSender_send_skips_first(vec, was) ==
    [i \in 1..Len(SelectSeq(vec, IsOpen)) |->
        IF i = 1 THEN SelectSeq(vec, IsOpen)[i]
        ELSE Deliver(SelectSeq(vec, IsOpen)[i], was)]

RegSender_send(vec, was) == DeliverAll(SelectSeq(vec, IsOpen), was)

RECURSIVE send_each(_, _)
send_each(vec, events) ==
    IF Len(events) = 0 THEN vec
    ELSE send_each(RegSender_send(vec, Head(events)), Tail(events))

Reverse(seq) == [i \in 1..Len(seq) |-> seq[Len(seq) + 1 - i]]

\* Mutant: one event however many entries are removed.
unregister_events_once(regs, loc, client_id, what) ==
    IF loc \notin DOMAIN regs THEN << >>
    ELSE LET gone(e) == e[1] = client_id /\ e[2] = what
         IN  IF Len(SelectSeq(regs[loc], gone)) = 0 THEN << >>
             ELSE << Event(FALSE, loc, what) >>

\* The events unregister posts: one per entry it removes.
unregister_events(regs, loc, client_id, what) ==
    IF loc \notin DOMAIN regs THEN << >>
    ELSE LET gone(e) == e[1] = client_id /\ e[2] = what
         IN  [i \in 1..Len(SelectSeq(regs[loc], gone)) |-> Event(FALSE, loc, what)]

\* The events unregister_all posts for one point: its loop runs from the
\* last entry to the first.
unregister_all_at(vec, loc, client_id) ==
    LET gone(e) == e[1] = client_id
    IN  Reverse([i \in 1..Len(SelectSeq(vec, gone)) |->
                    Event(FALSE, loc, SelectSeq(vec, gone)[i][2])])

RECURSIVE unregister_all_events(_, _, _)
unregister_all_events(regs, client_id, order) ==
    IF Len(order) = 0 THEN << >>
    ELSE (IF Head(order) \in DOMAIN regs
          THEN unregister_all_at(regs[Head(order)], Head(order), client_id)
          ELSE << >>)
         \o unregister_all_events(regs, client_id, Tail(order))

\* The events get_registrations puts in the new channel.
RECURSIVE current_events(_, _)
current_events(regs, order) ==
    IF Len(order) = 0 THEN << >>
    ELSE (IF Head(order) \in DOMAIN regs
          THEN [i \in 1..Len(regs[Head(order)]) |->
                   Event(TRUE, Head(order), regs[Head(order)][i][2])]
          ELSE << >>)
         \o current_events(regs, Tail(order))

Channel(id, events) == [id |-> id, open |-> TRUE, queue |-> events, heard |-> events]

(***************************************************************************)
(* Base64 (the base64 crate's encode and decode, standard alphabet with    *)
(* padding). An object is a sequence of bytes; a Base64 string is the      *)
(* sequence sym of its symbols, each the index 0..63 of a character of the *)
(* alphabet, followed by pad '=' characters.                               *)
(***************************************************************************)
RECURSIVE encode_symbols(_)
encode_symbols(b) ==
    IF Len(b) = 0 THEN << >>
    ELSE IF Len(b) = 1 THEN << b[1] \div 4, (b[1] % 4) * 16 >>
    ELSE IF Len(b) = 2
    THEN << b[1] \div 4, (b[1] % 4) * 16 + b[2] \div 16, (b[2] % 16) * 4 >>
    ELSE << b[1] \div 4, (b[1] % 4) * 16 + b[2] \div 16,
            (b[2] % 16) * 4 + b[3] \div 64, b[3] % 64 >>
         \o encode_symbols(SubSeq(b, 4, Len(b)))

base64_encode(b) == [sym |-> encode_symbols(b), pad |-> (3 - (Len(b) % 3)) % 3]

\* str::len of a Base64 string.
encoded_len(s) == Len(s.sym) + s.pad

RECURSIVE decode_symbols(_)
decode_symbols(y) ==
    IF Len(y) < 2 THEN << >>
    ELSE IF Len(y) = 2 THEN << y[1] * 4 + y[2] \div 16 >>
    ELSE IF Len(y) = 3
    THEN << y[1] * 4 + y[2] \div 16, (y[2] % 16) * 16 + y[3] \div 4 >>
    ELSE << y[1] * 4 + y[2] \div 16, (y[2] % 16) * 16 + y[3] \div 4,
            (y[3] % 4) * 64 + y[4] >>
         \o decode_symbols(SubSeq(y, 5, Len(y)))

\* The strings decode accepts: whole groups of four characters, the last
\* one padded, every symbol of the alphabet, no stray bits in the last symbol.
decodable(s) ==
    /\ \A i \in 1..Len(s.sym) : s.sym[i] \in 0..63
    /\ encoded_len(s) % 4 = 0
    /\ s.pad \in 0..2
    /\ s.pad = 1 => s.sym[Len(s.sym)] % 4 = 0
    /\ s.pad = 2 => s.sym[Len(s.sym)] % 16 = 0

base64_decode(s) == IF decodable(s) THEN Some(decode_symbols(s.sym)) ELSE None

max_object_encoded_size == ((max_object_size + 2) * 4) \div 3

(***************************************************************************)
(* map.rs: Map and its operations. A map value m is the record of the five *)
(* stores, together with the running totals of the energy operations.      *)
(* Every operation yields the map afterwards (m) and its result (ret).     *)
(***************************************************************************)
Zeroes == [p \in Points |-> 0]

Map_new ==
    [energy |-> EmptyMap, gas_packets |-> EmptyMap, liquid_packets |-> EmptyMap,
     objects |-> EmptyMap, registrations |-> EmptyMap,
     registration_senders |-> << >>,
     iter_order |-> CHOOSE o \in Orders : TRUE,
     total_added |-> Zeroes, total_spare |-> Zeroes, total_taken |-> Zeroes]

add_joules_slot(m, loc, slot, amt) ==
    [m |-> [m EXCEPT !.energy = Put(@, loc, add_joules_capped(slot, amt)),
                     !.total_added = [@ EXCEPT ![loc] = @ + amt],
                     !.total_spare = [@ EXCEPT ![loc] = @ + add_joules_spill(slot, amt)]],
     ret |-> add_joules_spill(slot, amt)]

add_joules(m, loc, amt) ==
    add_joules_slot(m, loc, IF loc \in DOMAIN m.energy THEN m.energy[loc] ELSE 0, amt)

sub_joules(m, loc, amt) ==
    IF loc \notin DOMAIN m.energy THEN [m |-> m, ret |-> 0]
    ELSE [m |-> [m EXCEPT !.energy = Put(@, loc, sub_joules_rest(m.energy[loc], amt)),
                          !.total_taken = [@ EXCEPT ![loc] =
                                              @ + sub_joules_slosh(m.energy[loc], amt)]],
          ret |-> sub_joules_slosh(m.energy[loc], amt)]

Queues(m, phase) == IF phase = "Gas" THEN m.gas_packets ELSE m.liquid_packets
WithQueues(m, phase, q) ==
    IF phase = "Gas" THEN [m EXCEPT !.gas_packets = q] ELSE [m EXCEPT !.liquid_packets = q]

SetQueues(m, phase, r) == [m |-> WithQueues(m, phase, r.map), ret |-> r.ret]
SetObjects(m, r) == [m |-> [m EXCEPT !.objects = r.map], ret |-> r.ret]
SetRegistrations(m, r) == [m |-> [m EXCEPT !.registrations = r.map], ret |-> r.ret]

add_packet(m, loc, packet, phase) ==
    SetQueues(m, phase, add_packet_in(Queues(m, phase), loc, packet, phase))

pop_packet(m, loc, phase) ==
    SetQueues(m, phase, pop_packet_in(Queues(m, phase), loc))

add_object(m, loc, object) == SetObjects(m, add_object_in(m.objects, loc, object))

pop_object(m, loc) == SetObjects(m, pop_object_in(m.objects, loc))

\* self.registration_senders.send for each of the events, in order.
posted(m, events) == [m EXCEPT !.registration_senders = send_each(@, events)]

register_post(r, loc, what) ==
    IF r.ret THEN [m |-> posted(r.m, << Event(TRUE, loc, what) >>), ret |-> TRUE]
    ELSE r

register(m, loc, client_id, what) ==
    register_post(SetRegistrations(m, register_in(m.registrations, loc, client_id, what)),
                  loc, what)

prune_all(m, locs) ==
    [m EXCEPT !.energy = PruneAllEnergy(@, locs),
              !.gas_packets = PruneAllPackets(@, locs),
              !.liquid_packets = PruneAllPackets(@, locs)]

unregister_prune(m, loc, r) ==
    IF r.prune THEN prune_all([m EXCEPT !.registrations = r.map], {loc})
    ELSE [m EXCEPT !.registrations = r.map]

unregister(m, loc, client_id, what) ==
    unregister_prune(posted(m, unregister_events(m.registrations, loc, client_id, what)),
                     loc, unregister_in(m.registrations, loc, client_id, what))

unregister_all_prune(m, r) == prune_all([m EXCEPT !.registrations = r.map], r.prunes)

unregister_all(m, client_id) ==
    unregister_all_prune(
        posted(m, unregister_all_events(m.registrations, client_id, m.iter_order)),
        unregister_all_in(m.registrations, client_id))

get_registrations(m, id) ==
    [m EXCEPT !.registration_senders =
        Append(@, Channel(id, current_events(m.registrations, m.iter_order)))]

\* The receiver of client id: try_recv / next, and its drop.
receiver(m, id) ==
    LET mine(ch) == ch.id = id IN SelectSeq(m.registration_senders, mine)

received(m, id) ==
    [m EXCEPT !.registration_senders =
        [i \in 1..Len(@) |-> IF @[i].id = id THEN [@[i] EXCEPT !.queue = Tail(@)]
                              ELSE @[i]]]

dropped(m, id) ==
    [m EXCEPT !.registration_senders =
        [i \in 1..Len(@) |-> IF @[i].id = id THEN [@[i] EXCEPT !.open = FALSE]
                              ELSE @[i]]]

clear(m) ==
    [m EXCEPT !.energy = EmptyMap, !.gas_packets = EmptyMap,
              !.liquid_packets = EmptyMap, !.objects = EmptyMap,
              !.registrations = EmptyMap]

(***************************************************************************)
(* try_load. A snapshot file that parses is the sequence of its tiles:     *)
(* [point, energy, gas_packets, liquid_packets, objects], where energy is  *)
(* an Option of a non-negative integer, the packets are those that         *)
(* deserialize as MatPacket and the objects are the strings of the array.  *)
(***************************************************************************)
RECURSIVE load_packets(_, _, _, _)
load_packets(m, loc, packets, phase) ==
    IF Len(packets) = 0 THEN m
    ELSE load_packets(add_packet(m, loc, Head(packets), phase).m, loc,
                      Tail(packets), phase)

\* One string of the objects array; decoded is base64::decode's result.
load_decoded(m, loc, decoded) ==
    IF IsSome(decoded) /\ Len(Unwrap(decoded)) <= max_object_size
    THEN add_object(m, loc, Unwrap(decoded)).m
    ELSE m

load_object(m, loc, object) ==
    IF encoded_len(object) > max_object_encoded_size THEN m
    ELSE load_decoded(m, loc, base64_decode(object))

RECURSIVE load_objects(_, _, _)
load_objects(m, loc, objs) ==
    IF Len(objs) = 0 THEN m
    ELSE load_objects(load_object(m, loc, Head(objs)), loc, Tail(objs))

load_energy(m, tile) ==
    IF IsSome(tile.energy) /\ Unwrap(tile.energy) <= U32_MAX
    THEN add_joules(m, tile.point, Unwrap(tile.energy)).m
    ELSE m

load_tile(m, tile) ==
    load_objects(
        load_packets(
            load_packets(load_energy(m, tile), tile.point, tile.gas_packets, "Gas"),
            tile.point, tile.liquid_packets, "Liquid"),
        tile.point, tile.objects)

RECURSIVE load_tiles(_, _)
load_tiles(m, tiles) ==
    IF Len(tiles) = 0 THEN m
    ELSE load_tiles(load_tile(m, Head(tiles)), Tail(tiles))

try_load(m, file) == load_tiles(clear(m), file)

(***************************************************************************)
(* main.rs: the arms of inner_client's message loop that act on the map.   *)
(* Each yields the map afterwards and the record of what was done: op is   *)
(* the Map operation performed, or "fatal" when the arm returned Err       *)
(* before performing one. An arm that returns Err ends inner_client, which *)
(* drops its receiver, and client then calls unregister_all(client_id)     *)
(* without suspending, so the fatal outcome includes both. loc is the      *)
(* point the arm acts on.                                                  *)
(***************************************************************************)
Done(r, op, loc, phase, arg) ==
    [m |-> r.m, op |-> op, loc |-> loc, phase |-> phase, arg |-> arg, ret |-> r.ret]

fatal(m, client_id, loc, phase, arg) ==
    [m |-> unregister_all(dropped(m, client_id), client_id), op |-> "fatal", loc |-> loc,
     phase |-> phase, arg |-> arg, ret |-> FALSE]

\* expect_int::<u32>
fits_u32(n) == 0 <= n /\ n <= U32_MAX

msg_send_joules(m, client_id, loc, joules) ==
    IF ~fits_u32(joules) THEN fatal(m, client_id, loc, "-", joules)
    ELSE Done(add_joules(m, loc, joules), "add_joules", loc, "-", joules)

msg_recv_joules(m, client_id, loc, max_joules) ==
    IF ~fits_u32(max_joules) THEN fatal(m, client_id, loc, "-", max_joules)
    ELSE Done(sub_joules(m, loc, max_joules), "sub_joules", loc, "-", max_joules)

msg_send_packet(m, client_id, loc, packet, phase) ==
    IF is_oversized(packet, phase) THEN fatal(m, client_id, loc, phase, packet)
    ELSE Done(add_packet(m, loc, packet, phase), "add_packet", loc, phase, packet)

msg_recv_packet(m, client_id, loc, phase) ==
    Done(pop_packet(m, loc, phase), "pop_packet", loc, phase, None)

\* send_object, once base64::decode has returned raw_object.
send_decoded(m, client_id, loc, base64_object, raw_object) ==
    IF ~IsSome(raw_object) \/ Len(Unwrap(raw_object)) > max_object_size
    THEN fatal(m, client_id, loc, "-", base64_object)
    ELSE Done(add_object(m, loc, Unwrap(raw_object)), "add_object", loc, "-",
              base64_object)

msg_send_object(m, client_id, loc, base64_object) ==
    IF encoded_len(base64_object) > max_object_encoded_size
    THEN fatal(m, client_id, loc, "-", base64_object)
    ELSE send_decoded(m, client_id, loc, base64_object, base64_decode(base64_object))

\* recv_object: the reply's object is the popped one, encoded.
got_object(r) ==
    [m |-> r.m, ret |-> IF IsSome(r.ret) THEN Some(base64_encode(Unwrap(r.ret))) ELSE None]

msg_recv_object(m, client_id, loc) ==
    Done(got_object(pop_object(m, loc)), "pop_object", loc, "-", None)

registered(r, client_id, loc, what) ==
    IF ~r.ret THEN fatal(r.m, client_id, loc, "-", << client_id, what >>)
    ELSE Done(r, "register", loc, "-", << client_id, what >>)

msg_register(m, client_id, loc, what) ==
    registered(register(m, loc, client_id, what), client_id, loc, what)

msg_unregister(m, client_id, loc, what) ==
    Done([m |-> unregister(m, loc, client_id, what), ret |-> TRUE],
         "unregister", loc, "-", << client_id, what >>)

\* true_main: the map the server starts with. save_file is an Option of the
\* snapshot file's tiles.
startup(m, save_file) ==
    Done([m |-> IF IsSome(save_file) THEN try_load(m, Unwrap(save_file)) ELSE m,
          ret |-> TRUE],
         "try_load", <<0, 0>>, "-", save_file)

(***************************************************************************)
(* try_save, and the way back. The file try_save writes is the sequence of *)
(* the JSON tiles of its object: key is the point's string, split at the   *)
(* commas; energy an Option; the packets are the JSON of to_value, the     *)
(* objects Base64 strings. read_file is what try_load makes of such a file *)
(* before it calls add_joules, add_packet and add_object: the tiles whose  *)
(* key is a point, with the packets that deserialize.                      *)
(***************************************************************************)
JNum(f) == [num |-> f]

\* serde_json::to_value of a f32: a NaN has no JSON number and becomes null.
f32_to_value(f) == IF f = NaN THEN Null ELSE JNum(f)

\* serde_json::to_value::<MatPacket> and from_value::<MatPacket>
to_value(packet) ==
    [element |-> packet.element, mass |-> f32_to_value(packet.mass),
     temperature |-> f32_to_value(packet.temperature), germs |-> packet.germs]
from_value(v) ==
    IF "num" \in DOMAIN v.mass /\ "num" \in DOMAIN v.temperature
    THEN Some(MatPacket(v.element, v.mass.num, v.temperature.num, v.germs))
    ELSE None

\* Point::as_string, and the split and parse of a key in try_load.
as_string(loc) ==
    IF Len(loc) = 2 \/ loc[3] = 0 THEN << loc[1], loc[2] >> ELSE << loc[1], loc[2], loc[3] >>
parse_key(key) ==
    IF Len(key) = 2 /\ I32_MIN <= key[1] /\ key[1] <= I32_MAX
       /\ I32_MIN <= key[2] /\ key[2] <= I32_MAX
    THEN Some(<< key[1], key[2] >>)
    ELSE None

\* Mutant: the energy of a point is saved whenever the point has an entry.
saved_energy_of_any_entry(m, loc) ==
    IF loc \in DOMAIN m.energy THEN Some(m.energy[loc]) ELSE None
saved_energy(m, loc) ==
    IF loc \in DOMAIN m.energy /\ m.energy[loc] > 0 THEN Some(m.energy[loc]) ELSE None
saved_packets(q, loc) ==
    IF loc \in DOMAIN q THEN [i \in 1..Len(q[loc]) |-> to_value(q[loc][i])] ELSE << >>
saved_objects(m, loc) ==
    IF loc \in DOMAIN m.objects
    THEN [i \in 1..Len(m.objects[loc]) |-> base64_encode(m.objects[loc][i])]
    ELSE << >>

\* set_tile_key: the tile of a point, if any of the four loops makes one.
saved_tile(m, loc) ==
    [key |-> as_string(loc), energy |-> saved_energy(m, loc),
     gas_packets |-> saved_packets(m.gas_packets, loc),
     liquid_packets |-> saved_packets(m.liquid_packets, loc),
     objects |-> saved_objects(m, loc)]
has_tile(m, loc) ==
    \/ IsSome(saved_energy(m, loc))
    \/ saved_packets(m.gas_packets, loc) # << >>
    \/ saved_packets(m.liquid_packets, loc) # << >>
    \/ saved_objects(m, loc) # << >>

try_save(m) ==
    LET saved(loc) == has_tile(m, loc)
    IN  [i \in 1..Len(SelectSeq(m.iter_order, saved)) |->
            saved_tile(m, SelectSeq(m.iter_order, saved)[i])]

read_packets(values) ==
    LET ok(v) == IsSome(from_value(v))
    IN  [i \in 1..Len(SelectSeq(values, ok)) |-> Unwrap(from_value(SelectSeq(values, ok)[i]))]

read_tile(tile) ==
    [point |-> Unwrap(parse_key(tile.key)), energy |-> tile.energy,
     gas_packets |-> read_packets(tile.gas_packets),
     liquid_packets |-> read_packets(tile.liquid_packets),
     objects |-> tile.objects]

read_file(tiles) ==
    LET ok(tile) == IsSome(parse_key(tile.key))
    IN  [i \in 1..Len(SelectSeq(tiles, ok)) |-> read_tile(SelectSeq(tiles, ok)[i])]

(***************************************************************************)
(* main.rs: true_main's load and save. A file is None when it does not     *)
(* exist, else [complete, tiles]: complete tells whether it holds the      *)
(* whole JSON text of a snapshot, a file that is not complete does not     *)
(* parse. files is [path, backup, temp]: the save file, the file with      *)
(* BACKUP_SUFFIX and the file with TEMP_SUFFIX.                            *)
(***************************************************************************)
Snapshot(tiles) == Some([complete |-> TRUE, tiles |-> tiles])
Truncated == Some([complete |-> FALSE, tiles |-> << >>])
loads(file) == IsSome(file) /\ Unwrap(file).complete

\* Mutant: the backup is read only when the save file does not exist.
load_backup_when_not_found(m, files) ==
    IF loads(files.path) THEN try_load(m, read_file(Unwrap(files.path).tiles))
    ELSE IF files.path = None /\ loads(files.backup)
    THEN try_load(m, read_file(Unwrap(files.backup).tiles))
    ELSE clear(m)
\* try_load(path).or_else(try_load(backup)), and clear when both fail.
load(m, files) ==
    IF loads(files.path) THEN try_load(m, read_file(Unwrap(files.path).tiles))
    ELSE IF loads(files.backup) THEN try_load(m, read_file(Unwrap(files.backup).tiles))
    ELSE clear(m)

boot(m, files) ==
    Done([m |-> load(m, files), ret |-> loads(files.path) \/ loads(files.backup)],
         "try_load", <<0, 0>>, "-", None)

\* Mutant: the snapshot is written over the save file itself.
save_temp_in_place(files, tiles, outcome) ==
    IF outcome = "ok" THEN [files EXCEPT !.path = Snapshot(tiles)]
    ELSE IF outcome = "write" THEN [files EXCEPT !.path = Truncated]
    ELSE files

\* try_save(temp_path): File::create fails, or the write fails after it, or
\* the whole text is written.
save_temp(files, tiles, outcome) ==
    IF outcome = "ok" THEN [files EXCEPT !.temp = Snapshot(tiles)]
    ELSE IF outcome = "write" THEN [files EXCEPT !.temp = Truncated]
    ELSE files

\* fs::rename(path, backup_path): only Ok moves the file.
rename_backup(files, outcome) ==
    IF outcome = "ok" THEN [files EXCEPT !.backup = files.path, !.path = None]
    ELSE files

\* fs::rename(temp_path, path)
rename_temp(files, outcome) ==
    IF outcome = "ok" THEN [files EXCEPT !.path = files.temp, !.temp = None]
    ELSE files

(***************************************************************************)
(* The state machine.                                                      *)
(***************************************************************************)
Cur ==
    [energy |-> energy, gas_packets |-> gas_packets, liquid_packets |-> liquid_packets,
     objects |-> objects, registrations |-> registrations,
     registration_senders |-> registration_senders, iter_order |-> iter_order,
     total_added |-> total_added, total_spare |-> total_spare,
     total_taken |-> total_taken]

\* The order of iteration is only seen through the events sent to the
\* subscribers: without subscribers it is left as it is, with subscribers it
\* may be any order at the next operation.
Install(r) ==
    /\ energy' = r.m.energy
    /\ gas_packets' = r.m.gas_packets
    /\ liquid_packets' = r.m.liquid_packets
    /\ objects' = r.m.objects
    /\ registrations' = r.m.registrations
    /\ registration_senders' = r.m.registration_senders
    /\ iter_order' \in IF r.m.registration_senders = << >> THEN { iter_order } ELSE Orders
    /\ total_added' = r.m.total_added
    /\ total_spare' = r.m.total_spare
    /\ total_taken' = r.m.total_taken
    /\ last' = [op |-> r.op, loc |-> r.loc, phase |-> r.phase, arg |-> r.arg,
                ret |-> r.ret]

\* The tasks server_loop spawns: each starts in inner_client, waiting for
\* its first message. log is what the connection received ("in") and sent
\* ("out"), in order; exit tells how the task ended.
Clients == {1, 2}
NewConn ==
    [state |-> "hello", exit |-> "-", log |-> << >>, hello |-> None,
     offsets |-> << >>, n |-> 0, ok_auths |-> 0, answers |-> << >>]

\* No option on the command line; a release build.
NoOptions == [offset_mode |-> FALSE, overflow_checks |-> FALSE, auth_file |-> None]
NoFiles == [path |-> None, backup |-> None, temp |-> None]

InitState ==
    /\ energy = Map_new.energy
    /\ gas_packets = Map_new.gas_packets
    /\ liquid_packets = Map_new.liquid_packets
    /\ objects = Map_new.objects
    /\ registrations = Map_new.registrations
    /\ registration_senders = Map_new.registration_senders
    /\ iter_order = Map_new.iter_order
    /\ total_added = Map_new.total_added
    /\ total_spare = Map_new.total_spare
    /\ total_taken = Map_new.total_taken
    /\ stage = "startup"
    /\ last = [op |-> "new", loc |-> <<0, 0>>, phase |-> "-", arg |-> None, ret |-> TRUE]
    /\ nops = 0
    /\ conns = [c \in Clients |-> NewConn]

Init == InitState /\ config = NoOptions /\ disk = NoFiles

\* A scenario performs at most bound requests (bound = 0: any number).
Serving(bound) ==
    /\ stage = "serving"
    /\ UNCHANGED << stage, conns, config, disk >>
    /\ IF bound = 0 THEN UNCHANGED nops ELSE nops < bound /\ nops' = nops + 1

Startup(files) ==
    /\ stage = "startup"
    /\ stage' = "serving"
    /\ UNCHANGED << nops, conns, config, disk >>
    /\ \E save_file \in files : Install(startup(Cur, save_file))

\* Start with the files on the disk.
Boot ==
    /\ stage = "startup"
    /\ stage' = "serving"
    /\ UNCHANGED << nops, conns, config, disk >>
    /\ Install(boot(Cur, disk))

\* The three steps of the save when the server closes down. last.arg keeps
\* the files as they were when the save began.
TrySave(outcomes) ==
    /\ stage = "serving"
    /\ \E outcome \in outcomes :
          /\ disk' = save_temp(disk, try_save(Cur), outcome)
          /\ stage' = IF outcome = "ok" THEN "saved" ELSE "stopped"
          /\ Install(Done([m |-> Cur, ret |-> outcome = "ok"], "try_save", <<0, 0>>, "-",
                          << disk >>))
    /\ UNCHANGED << nops, conns, config >>

RenameBackup ==
    /\ stage = "saved"
    /\ stage' = "backed_up"
    /\ \E outcome \in IF IsSome(disk.path) THEN { "ok", "error" }
                      ELSE { "not_found", "error" } :
          /\ disk' = rename_backup(disk, outcome)
          /\ Install(Done([m |-> Cur, ret |-> outcome = "ok"], "rename_backup", <<0, 0>>,
                          "-", last.arg))
    /\ UNCHANGED << nops, conns, config >>

RenameTemp ==
    /\ stage = "backed_up"
    /\ stage' = "stopped"
    /\ \E outcome \in { "ok", "error" } :
          /\ disk' = rename_temp(disk, outcome)
          /\ Install(Done([m |-> Cur, ret |-> outcome = "ok"], "rename_temp", <<0, 0>>,
                          "-", last.arg))
    /\ UNCHANGED << nops, conns, config >>

\* The process dies where it is.
Crash ==
    /\ stage \in { "serving", "saved", "backed_up" }
    /\ stage' = "stopped"
    /\ UNCHANGED << energy, gas_packets, liquid_packets, objects, registrations,
                    registration_senders, iter_order, conns, config, disk, last, nops,
                    total_added, total_spare, total_taken >>

\* The server is started again: a new map, no connection.
Restart ==
    /\ stage = "stopped"
    /\ stage' = "startup"
    /\ conns' = [c \in Clients |-> NewConn]
    /\ Install(Done([m |-> Map_new, ret |-> TRUE], "new", <<0, 0>>, "-", None))
    /\ UNCHANGED << nops, config, disk >>

SendJoules(bound, clients, locs, amts) ==
    /\ Serving(bound)
    /\ \E c \in clients, loc \in locs, j \in amts : Install(msg_send_joules(Cur, c, loc, j))

RecvJoules(bound, clients, locs, amts) ==
    /\ Serving(bound)
    /\ \E c \in clients, loc \in locs, j \in amts : Install(msg_recv_joules(Cur, c, loc, j))

SendPacket(bound, clients, locs, phases, packets) ==
    /\ Serving(bound)
    /\ \E c \in clients, loc \in locs, ph \in phases, p \in packets :
          Install(msg_send_packet(Cur, c, loc, p, ph))

RecvPacket(bound, clients, locs, phases) ==
    /\ Serving(bound)
    /\ \E c \in clients, loc \in locs, ph \in phases :
          Install(msg_recv_packet(Cur, c, loc, ph))

SendObject(bound, clients, locs, objs) ==
    /\ Serving(bound)
    /\ \E c \in clients, loc \in locs, o \in objs : Install(msg_send_object(Cur, c, loc, o))

RecvObject(bound, clients, locs) ==
    /\ Serving(bound)
    /\ \E c \in clients, loc \in locs : Install(msg_recv_object(Cur, c, loc))

Register(bound, clients, locs, names) ==
    /\ Serving(bound)
    /\ \E c \in clients, loc \in locs, n \in names : Install(msg_register(Cur, c, loc, n))

Unregister(bound, clients, locs, names) ==
    /\ Serving(bound)
    /\ \E c \in clients, loc \in locs, n \in names : Install(msg_unregister(Cur, c, loc, n))

\* client: inner_client has returned, its receiver is dropped and
\* unregister_all is called for the client.
UnregisterAll(bound, clients) ==
    /\ Serving(bound)
    /\ \E c \in clients :
          Install(Done([m |-> unregister_all(dropped(Cur, c), c), ret |-> TRUE],
                       "unregister_all", <<0, 0>>, "-", << c, "-" >>))

(***************************************************************************)
(* Energy: send_joules and recv_joules requests at two points, with        *)
(* amounts on both sides of the capacity and of the u32 range.             *)
(***************************************************************************)
JouleInputs == { 0 - 1, 0, 1, 6000, U32_MAX, U32_MAX + 1 }
EnergyFiles ==
    { None,
      Some(<< [point |-> <<0, 0>>, energy |-> Some(12000), gas_packets |-> << >>,
               liquid_packets |-> << >>, objects |-> << >>] >>) }

EnergyStartup == Startup(EnergyFiles)
EnergySend == SendJoules(MaxEnergyOps, {1}, Points, JouleInputs)
EnergyRecv == RecvJoules(MaxEnergyOps, {1}, Points, JouleInputs)

NextEnergy == EnergyStartup \/ EnergySend \/ EnergyRecv
SpecEnergy == Init /\ [][NextEnergy]_vars

Stored(loc) == IF loc \in DOMAIN energy THEN energy[loc] ELSE 0

\* C1: at every point, the spares returned by add_joules plus the energy
\* stored equal the total passed to add_joules minus the total returned by
\* sub_joules: no joule is created or lost.
C1_EnergyConserved ==
    \A loc \in Points :
        total_spare[loc] + Stored(loc) = total_added[loc] - total_taken[loc]

\* C1 witness: an add that spilled and a sub that took energy have both
\* happened at one point, and energy is still stored there.
C1_Witness ==
    \E loc \in Points :
        /\ total_spare[loc] > 0
        /\ total_taken[loc] > 0
        /\ Stored(loc) > 0

\* C2 as stated: the energy stored is the clamp of everything added minus
\* everything taken.
C2_StoredIsClampOfAddedMinusTaken ==
    \A loc \in Points :
        Stored(loc) = Max(0, Min(MAX_STORED_ENERGY, total_added[loc] - total_taken[loc]))

\* C2 amended: the energy stored is the clamp of what was added and not
\* returned as spare, minus everything taken.
C2_StoredIsClampOfAcceptedMinusTaken ==
    \A loc \in Points :
        Stored(loc) = Max(0, Min(MAX_STORED_ENERGY,
                                 (total_added[loc] - total_spare[loc]) - total_taken[loc]))

\* C2 witness: after a spill, a sub has taken energy at the same point, so
\* that the clamp of added minus taken differs from the amount stored.
C2_Witness ==
    \E loc \in Points :
        /\ last.op = "sub_joules"
        /\ last.loc = loc
        /\ last.ret > 0
        /\ total_spare[loc] > 0
        /\ Stored(loc) < MAX_STORED_ENERGY

(***************************************************************************)
(* Packets: send_packet and recv_packet requests at one point, in both     *)
(* phases, after a startup that may load a snapshot. The packets a client  *)
(* sends include a negative mass, a zero mass and masses above the gas     *)
(* maximum; the snapshots include a queue of nine full packets and an      *)
(* oversized packet.                                                       *)
(***************************************************************************)
Origin == { <<0, 0>> }
Elements == { 1, 2 }

WirePackets ==
    { MatPacket(1, 2, 300, None),
      MatPacket(1, 3, 320, Some([id |-> 7, count |-> 5])),
      MatPacket(1, 4, 320, None),
      MatPacket(2, 2, 300, None),
      MatPacket(1, 0 - 1, 300, None),
      MatPacket(1, 0, 300, None),
      MatPacket(1, 5, 310, Some([id |-> 8, count |-> 3])),
      MatPacket(2, 40, 300, None) }

Tile(point, e, gas, liquid, objs) ==
    [point |-> point, energy |-> e, gas_packets |-> gas, liquid_packets |-> liquid,
     objects |-> objs]

PacketFiles ==
    { None,
      Some(<< Tile(<<0, 0>>, None,
                   [i \in 1..(MAX_STORED_PACKETS - 1) |-> MatPacket(2, 4, 300, None)],
                   << >>, << >>) >>),
      Some(<< Tile(<<0, 0>>, None,
                   << MatPacket(1, 50, 300, None) >>,
                   << MatPacket(1, 38, 300, Some([id |-> 7, count |-> 4])) >>,
                   << >>) >>) }

PacketStartup == Startup(PacketFiles)
PacketSend == SendPacket(MaxPacketOps, {1}, Origin, Phases, WirePackets)
PacketRecv == RecvPacket(MaxPacketOps, {1}, Origin, Phases)

NextPackets == PacketStartup \/ PacketSend \/ PacketRecv
SpecPackets == Init /\ [][NextPackets]_vars

\* The queue of a phase at a point (empty when the point has no entry).
StoreOf(phase) == IF phase = "Gas" THEN gas_packets ELSE liquid_packets
QueueIn(store, loc) == IF loc \in DOMAIN store THEN store[loc] ELSE << >>
Q(phase, loc) == QueueIn(StoreOf(phase), loc)
\* The same queue after the step.
QAfter(phase, loc) ==
    IF phase = "Gas" THEN QueueIn(gas_packets', loc) ELSE QueueIn(liquid_packets', loc)

RECURSIVE MassOf(_, _)
MassOf(q, element) ==
    IF Len(q) = 0 THEN 0
    ELSE (IF Head(q).element = element THEN Head(q).mass ELSE 0)
         + MassOf(Tail(q), element)

\* C4: when add_packet returns false, both packet stores are exactly as
\* they were before the call.
C4_RejectedAddChangesNothing ==
    [][ (last'.op = "add_packet" /\ last'.ret = FALSE)
        => (gas_packets' = gas_packets /\ liquid_packets' = liquid_packets) ]_vars

\* C4 witness: a packet was rejected by a full queue that holds a non-full
\* packet of its element into which it would have partly merged.
C4_Witness ==
    /\ last.op = "add_packet"
    /\ last.ret = FALSE
    /\ Len(Q(last.phase, last.loc)) = MAX_STORED_PACKETS
    /\ \E i \in 1..Len(Q(last.phase, last.loc)) :
          LET el == Q(last.phase, last.loc)[i]
          IN  /\ el.element = last.arg.element
              /\ has_room(el, last.phase)
              /\ el.mass + last.arg.mass > get_max_stack_size(last.phase)

Changed(q, r) == { i \in 1..Len(q) : i > Len(r) \/ r[i] # q[i] }

\* C6: pop_packet removes and returns the head of the selected queue;
\* add_packet keeps every entry at its position, rewriting at most one
\* entry in place (keeping its element) and appending at most one.
C6_QueueOrderKept ==
    [][ /\ last'.op = "pop_packet"
            => LET q == Q(last'.phase, last'.loc)
               IN  IF Len(q) = 0
                   THEN last'.ret = None /\ QAfter(last'.phase, last'.loc) = q
                   ELSE /\ last'.ret = Some(Head(q))
                        /\ QAfter(last'.phase, last'.loc) = Tail(q)
        /\ last'.op = "add_packet"
            => LET q == Q(last'.phase, last'.loc)
                   r == QAfter(last'.phase, last'.loc)
               IN  /\ Len(r) \in { Len(q), Len(q) + 1 }
                   /\ Cardinality(Changed(q, r)) <= 1
                   /\ \A i \in Changed(q, r) : r[i].element = q[i].element ]_vars

\* C6 witness: a pop returned a packet from a queue that still holds
\* another one.
C6_Witness ==
    /\ last.op = "pop_packet"
    /\ IsSome(last.ret)
    /\ Len(Q(last.phase, last.loc)) >= 1
    /\ Q(last.phase, last.loc)[1] # Unwrap(last.ret)

WellFormed(p, phase) == 0 < p.mass /\ p.mass <= get_max_stack_size(phase)

\* C8: a well-formed packet added to an empty queue is accepted and stored
\* as it is; a second well-formed packet of the same element is accepted
\* too and leaves one packet of the summed mass at the mass-weighted mean
\* temperature when the sum fits, else a head of exactly the maximum mass
\* followed by one packet holding the rest at the second packet's
\* temperature.
C8_TwoAddsFromEmpty ==
    [][ LET ph == last'.phase
            q == Q(last'.phase, last'.loc)
            r == QAfter(last'.phase, last'.loc)
            p2 == last'.arg
        IN  /\ (last'.op = "add_packet" /\ Len(q) = 0 /\ WellFormed(p2, ph))
                => (last'.ret = TRUE /\ r = << p2 >>)
            /\ (/\ last'.op = "add_packet"
                /\ last.op = "add_packet"
                /\ last.phase = ph
                /\ last.loc = last'.loc
                /\ q = << last.arg >>
                /\ WellFormed(last.arg, ph)
                /\ WellFormed(p2, ph)
                /\ p2.element = last.arg.element)
                => LET p1 == last.arg
                       max == get_max_stack_size(ph)
                   IN  /\ last'.ret = TRUE
                       /\ IF p1.mass + p2.mass <= max
                          THEN /\ Len(r) = 1
                               /\ r[1].element = p1.element
                               /\ r[1].mass = p1.mass + p2.mass
                               /\ r[1].temperature =
                                     (p1.temperature * p1.mass + p2.temperature * p2.mass)
                                        \div (p1.mass + p2.mass)
                          ELSE /\ Len(r) = 2
                               /\ r[1].element = p1.element
                               /\ r[1].mass = max
                               /\ r[2].element = p1.element
                               /\ r[2].mass = (p1.mass + p2.mass) - max
                               /\ r[2].temperature = p2.temperature ]_vars

\* C8 witness: the second of two adds into an empty queue overflowed the
\* first packet, which was not full: a full head at a mixed temperature and
\* a tail holding the rest.
C8_Witness ==
    /\ last.op = "add_packet"
    /\ last.ret = TRUE
    /\ nops = 2
    /\ LET q == Q(last.phase, last.loc)
       IN  /\ Len(q) = 2
           /\ q[1].mass = get_max_stack_size(last.phase)
           /\ q[1].temperature # last.arg.temperature
           /\ q[2].mass < last.arg.mass
           /\ q[2].temperature = last.arg.temperature

\* C9: a packet added to a non-empty queue that holds no packet of its
\* element is appended at the tail when the queue has room and rejected
\* otherwise; either way the packets already there are unchanged.
C9_OtherElementUntouched ==
    [][ LET q == Q(last'.phase, last'.loc)
            r == QAfter(last'.phase, last'.loc)
        IN  (/\ last'.op = "add_packet"
             /\ Len(q) > 0
             /\ \A i \in 1..Len(q) : q[i].element # last'.arg.element)
            => IF Len(q) < MAX_STORED_PACKETS
               THEN last'.ret = TRUE /\ r = Append(q, last'.arg)
               ELSE last'.ret = FALSE /\ r = q ]_vars

\* C9 witness: a packet was rejected by a full queue of packets of another
\* element.
C9_Witness ==
    /\ last.op = "add_packet"
    /\ last.ret = FALSE
    /\ Len(Q(last.phase, last.loc)) = MAX_STORED_PACKETS
    /\ \A i \in 1..Len(Q(last.phase, last.loc)) :
          Q(last.phase, last.loc)[i].element # last.arg.element

\* C7 as stated: every stored packet has a mass between 0 and the maximum
\* stack size of its queue's phase.
C7_StoredMassInRange ==
    \A ph \in Phases : \A loc \in DOMAIN StoreOf(ph) :
        \A i \in 1..Len(StoreOf(ph)[loc]) :
            /\ 0 <= StoreOf(ph)[loc][i].mass
            /\ StoreOf(ph)[loc][i].mass <= get_max_stack_size(ph)


(***************************************************************************)
(* Capacities: the requests that fill the stores of one point, with full   *)
(* packets, any number of times (send_joules a bounded number of times),   *)
(* together with those that empty the gas queue, the object queue and the  *)
(* registrations, after loading a snapshot that holds more than the stores *)
(* may hold, or one whose liquid queue is one packet short of full.        *)
(***************************************************************************)
CapClients == {1}
FullGas == MatPacket(1, 4, 300, None)
FullLiquid == MatPacket(1, 40, 300, None)
CapObject == base64_encode(<<0>>)

CapFiles ==
    { Some(<< Tile(<<0, 0>>, None, << >>,
                   [i \in 1..(MAX_STORED_PACKETS - 1) |-> FullLiquid], << >>) >>),
      Some(<< Tile(<<0, 0>>, Some(MAX_STORED_ENERGY + 2000),
                   [i \in 1..(MAX_STORED_PACKETS + 2) |-> FullGas],
                   [i \in 1..(MAX_STORED_PACKETS + 2) |-> FullLiquid],
                   [i \in 1..(MAX_STORED_OBJECTS + 2) |-> CapObject]) >>) }

CapStartup == Startup(CapFiles)
CapSendJoules == SendJoules(MaxEnergyOps, CapClients, Origin, {6000})
CapSendGas == SendPacket(0, CapClients, Origin, {"Gas"}, {FullGas})
CapSendLiquid == SendPacket(0, CapClients, Origin, {"Liquid"}, {FullLiquid})
CapRecvPacket == RecvPacket(0, CapClients, Origin, {"Gas"})
CapSendObject == SendObject(0, CapClients, Origin, {CapObject})
CapRecvObject == RecvObject(0, CapClients, Origin)
CapRegister == Register(0, CapClients, Origin, {"Pump"})
CapUnregister == Unregister(0, CapClients, Origin, {"Pump"})

NextCaps ==
    \/ CapStartup
    \/ CapSendJoules
    \/ CapSendGas
    \/ CapSendLiquid
    \/ CapRecvPacket
    \/ CapSendObject
    \/ CapRecvObject
    \/ CapRegister
    \/ CapUnregister
SpecCaps == Init /\ [][NextCaps]_vars

\* C3: no point stores more than MAX_STORED_ENERGY joules, more than
\* MAX_STORED_PACKETS gas packets or liquid packets, more than
\* MAX_STORED_OBJECTS objects, or more than MAX_REGISTRATIONS registrations
\* of one client.
C3_CapsHold ==
    /\ \A loc \in DOMAIN energy : energy[loc] <= MAX_STORED_ENERGY
    /\ \A loc \in DOMAIN gas_packets : Len(gas_packets[loc]) <= MAX_STORED_PACKETS
    /\ \A loc \in DOMAIN liquid_packets : Len(liquid_packets[loc]) <= MAX_STORED_PACKETS
    /\ \A loc \in DOMAIN objects : Len(objects[loc]) <= MAX_STORED_OBJECTS
    /\ \A loc \in DOMAIN registrations : \A c \in CapClients :
          CountOf(registrations[loc], c) <= MAX_REGISTRATIONS

\* C3 witness: every store of the point is at its capacity, and the last
\* request was a packet that the full queue refused.
C3_Witness ==
    /\ Stored(<<0, 0>>) = MAX_STORED_ENERGY
    /\ Len(Q("Gas", <<0, 0>>)) = MAX_STORED_PACKETS
    /\ Len(Q("Liquid", <<0, 0>>)) = MAX_STORED_PACKETS
    /\ Len(QueueIn(objects, <<0, 0>>)) = MAX_STORED_OBJECTS
    /\ CountOf(QueueIn(registrations, <<0, 0>>), 1) = MAX_REGISTRATIONS
    /\ last.op = "add_packet"
    /\ last.ret = FALSE

(***************************************************************************)
(* Objects: send_object and recv_object requests at one point, any number  *)
(* of times, with objects below, at and above the size limit and a string  *)
(* that is not Base64.                                                     *)
(***************************************************************************)
Blobs == { << >>, <<0>>, <<255>>, <<0, 255>>, <<255, 0, 77>>, <<1, 2, 3, 4>> }
NotBase64 == [sym |-> <<0>>, pad |-> 0]
WireObjects == { base64_encode(b) : b \in Blobs } \cup { NotBase64 }

ObjectFiles ==
    { None,
      Some(<< Tile(<<0, 0>>, None, << >>, << >>,
                   << base64_encode(<<0>>), NotBase64, base64_encode(<<1, 2, 3, 4>>),
                      base64_encode(<<0, 255>>), base64_encode(<<255>>),
                      base64_encode(<< >>) >>) >>) }

ObjectStartup == Startup(ObjectFiles)
ObjectSend == SendObject(0, {1}, Origin, WireObjects)
ObjectRecv == RecvObject(0, {1}, Origin)

NextObjects == ObjectStartup \/ ObjectSend \/ ObjectRecv
SpecObjects == Init /\ [][NextObjects]_vars

\* The bytes a client encoded as the string arg.
Sent(arg) == CHOOSE b \in Blobs : base64_encode(b) = arg

\* C10: add_object appends the client's bytes at the tail when the queue
\* holds fewer than MAX_STORED_OBJECTS objects, and otherwise returns false
\* and changes nothing; pop_object on a non-empty queue returns its oldest
\* object, unchanged, and leaves the others in order; pop_object right
\* after an accepted add_object on an empty queue returns what was added.
C10_ObjectsAreFifo ==
    [][ /\ (last'.op = "add_object")
           => IF Len(QueueIn(objects, last'.loc)) < MAX_STORED_OBJECTS
              THEN /\ last'.ret = TRUE
                   /\ QueueIn(objects', last'.loc)
                         = Append(QueueIn(objects, last'.loc), Sent(last'.arg))
              ELSE /\ last'.ret = FALSE
                   /\ objects' = objects
        /\ (last'.op = "pop_object" /\ Len(QueueIn(objects, last'.loc)) > 0)
           => /\ last'.ret = Some(base64_encode(Head(QueueIn(objects, last'.loc))))
              /\ base64_decode(Unwrap(last'.ret)) = Some(Head(QueueIn(objects, last'.loc)))
              /\ QueueIn(objects', last'.loc) = Tail(QueueIn(objects, last'.loc))
        /\ (/\ last.op = "add_object"
            /\ last.ret = TRUE
            /\ Len(QueueIn(objects, last.loc)) = 1
            /\ last'.op = "pop_object"
            /\ last'.loc = last.loc)
           => last'.ret = Some(base64_encode(Sent(last.arg))) ]_vars

\* C10 witness: pop_object on a full queue of three different objects has
\* returned the one added first and left the two added after it.
C10_Witness ==
    /\ last.op = "pop_object"
    /\ last.ret = Some(base64_encode(<<0, 255>>))
    /\ QueueIn(objects, <<0, 0>>) = << <<255>>, << >> >>


(***************************************************************************)
(* main.rs: inner_client up to auth_ok. A received message is a record of  *)
(* JSON values, one field per key present. Integers are kept narrower than *)
(* in the program, in the same order: u32 < i64.                           *)
(***************************************************************************)
I64_MAX == 1073741823
NUM_CHALLENGES == 3
SUPPORTED_VERSIONS == << 0, 1, 2 >>

\* Number::as_i64
as_i64(v) ==
    IF "int" \in DOMAIN v /\ (0 - I64_MAX) - 1 <= v.int /\ v.int <= I64_MAX
    THEN Some(v.int)
    ELSE None

\* serde_json::from_value::<Option<CompressionType>>
compression_type(v) ==
    IF "null" \in DOMAIN v THEN [ok |-> TRUE, typ |-> None]
    ELSE IF Says(v, "Zlib") THEN [ok |-> TRUE, typ |-> Some("Zlib")]
    ELSE [ok |-> FALSE, typ |-> None]

HandshakeError(what, supported) ==
    [type |-> "handshake_error", what |-> what, supported |-> supported]

\* The match on proto_version.
check_version(proto_version) ==
    IF ~IsSome(proto_version) THEN [ok |-> FALSE, what |-> "bad_version"]
    ELSE IF Unwrap(proto_version) = 0
    THEN [ok |-> TRUE, may_send_handshake_error |-> FALSE]
    ELSE IF Unwrap(proto_version) \in {1, 2}
    THEN [ok |-> TRUE, may_send_handshake_error |-> TRUE]
    ELSE IF Unwrap(proto_version) < 0 THEN [ok |-> FALSE, what |-> "version_too_old"]
    ELSE [ok |-> FALSE, what |-> "version_too_new"]

\* The checks of the first message: whether inner_client goes on, and what
\* it sent before returning Err if not.
handshake(message) ==
    IF ~Says(Field(message, "type"), "hello") THEN [proceed |-> FALSE, sent |-> << >>]
    ELSE IF ~compression_type(Field(message, "compression")).ok
    THEN [proceed |-> FALSE,
          sent |-> << HandshakeError("compression_type_unknown", << "Zlib" >>) >>]
    ELSE IF ~Says(Field(message, "proto"), "oniz")
    THEN [proceed |-> FALSE,
          sent |-> << HandshakeError("unknown_protocol", << "oniz" >>) >>]
    ELSE IF ~check_version(as_i64(Field(message, "version"))).ok
    THEN [proceed |-> FALSE,
          sent |-> << HandshakeError(check_version(as_i64(Field(message, "version"))).what,
                                     SUPPORTED_VERSIONS) >>]
    ELSE [proceed |-> TRUE, sent |-> << >>]

\* The connection's log.
Received(conn, message) == [conn EXCEPT !.log = Append(@, << "in", message >>)]
Sending(conn, messages) ==
    [conn EXCEPT !.log = @ \o [i \in 1..Len(messages) |-> << "out", messages[i] >>]]
Out(conn) ==
    LET out(e) == e[1] = "out"
    IN  [i \in 1..Len(SelectSeq(conn.log, out)) |-> SelectSeq(conn.log, out)[i][2]]
In(conn) ==
    LET in(e) == e[1] = "in"
    IN  [i \in 1..Len(SelectSeq(conn.log, in)) |-> SelectSeq(conn.log, in)[i][2]]

\* inner_client returns (exit is "ok" for Ok(()), "err" for Err): its
\* receiver is dropped and client calls unregister_all.
ended(m, conn, client_id, exit) ==
    [m |-> unregister_all(dropped(m, client_id), client_id),
     conn |-> [conn EXCEPT !.state = "closed", !.exit = exit]]

\* The task panics: its future is dropped, and client never gets to
\* unregister_all.
panicked(m, conn, client_id) ==
    [m |-> dropped(m, client_id),
     conn |-> [conn EXCEPT !.state = "closed", !.exit = "panic"]]

\* auth_ok, then get_registrations: the registrations are sent next.
authenticated(m, conn, client_id) ==
    [m |-> get_registrations(m, client_id),
     conn |-> [Sending(conn, << [type |-> "auth_ok"] >>) EXCEPT !.state = "drain"]]

NeedAuth(offset) == [type |-> "need_auth", offset |-> offset]

\* The Base64 of the SHA-256 of the AUTH_BYTE_SIZE bytes of the secret that
\* start at offset % len, wrapping around: a value that depends on the
\* position the read starts from.
calculated_hash(offset, len) == JStr(<< "sha256", offset % len >>)

\* After the handshake: the secret file is opened and the first challenge
\* sent, or there is nothing to authenticate.
begin_auth(m, conn, client_id, auth_file, offsets) ==
    IF ~IsSome(auth_file) THEN authenticated(m, conn, client_id)
    ELSE IF ~Unwrap(auth_file).readable \/ Unwrap(auth_file).len = 0
    THEN ended(m, conn, client_id, "err")
    ELSE [m |-> m,
          conn |-> [Sending(conn, << NeedAuth(offsets[1]) >>)
                       EXCEPT !.state = "auth", !.offsets = offsets, !.n = 1]]

hello_checked(m, conn, client_id, auth_file, offsets, h) ==
    IF ~h.proceed THEN ended(m, Sending(conn, h.sent), client_id, "err")
    ELSE begin_auth(m, conn, client_id, auth_file, offsets)

\* The first message has arrived.
hello(m, conn, client_id, auth_file, offsets, message) ==
    hello_checked(m, [Received(conn, message) EXCEPT !.hello = Some(message)],
                  client_id, auth_file, offsets, handshake(message))

\* Mutant: one matching answer is enough.
auth_next_any(m, conn, client_id) ==
    IF conn.n < NUM_CHALLENGES
    THEN [m |-> m,
          conn |-> [Sending(conn, << NeedAuth(conn.offsets[conn.n + 1]) >>)
                       EXCEPT !.n = @ + 1]]
    ELSE IF conn.ok_auths = 0
    THEN ended(m, Sending(conn, << [type |-> "auth_bad"] >>), client_id, "ok")
    ELSE authenticated(m, conn, client_id)

\* Mutant: after auth_bad the connection goes on as an authenticated one.
auth_next_after_auth_bad(m, conn, client_id) ==
    IF conn.n < NUM_CHALLENGES
    THEN [m |-> m,
          conn |-> [Sending(conn, << NeedAuth(conn.offsets[conn.n + 1]) >>)
                       EXCEPT !.n = @ + 1]]
    ELSE IF conn.ok_auths # NUM_CHALLENGES
    THEN authenticated(m, Sending(conn, << [type |-> "auth_bad"] >>), client_id)
    ELSE authenticated(m, conn, client_id)
\* The end of one round of the challenge loop, and what follows the loop.
auth_next(m, conn, client_id) ==
    IF conn.n < NUM_CHALLENGES
    THEN [m |-> m,
          conn |-> [Sending(conn, << NeedAuth(conn.offsets[conn.n + 1]) >>)
                       EXCEPT !.n = @ + 1]]
    ELSE IF conn.ok_auths # NUM_CHALLENGES
    THEN ended(m, Sending(conn, << [type |-> "auth_bad"] >>), client_id, "ok")
    ELSE authenticated(m, conn, client_id)

auth_compared(conn, sent_hash, calculated) ==
    [conn EXCEPT !.ok_auths = IF sent_hash = calculated THEN @ + 1 ELSE @,
                 !.answers = Append(@, << calculated, sent_hash >>)]

\* The answer to challenge conn.n has arrived.
auth(m, conn, client_id, len, message) ==
    IF ~Says(Field(message, "type"), "auth") \/ ~IsStr(Field(message, "hash"))
    THEN ended(m, Received(conn, message), client_id, "err")
    ELSE auth_next(m,
                   auth_compared(Received(conn, message), Field(message, "hash"),
                                 calculated_hash(conn.offsets[conn.n], len)),
                   client_id)

\* client.next() yields None (the peer closed), or an I/O operation of the
\* task fails (a read or write error, a frame that does not decode, the
\* handshake's timeout).
hangup(m, conn, client_id, how) ==
    ended(m, conn, client_id,
          IF how = "eof" /\ conn.state # "hello" THEN "ok" ELSE "err")

(***************************************************************************)
(* main.rs: inner_client after auth_ok. The registrations queued by        *)
(* get_registrations are sent before the first flush; then the loop        *)
(* answers one event at a time: the keepalive timer, a registration event, *)
(* or a message of the client. writable tells whether the socket takes     *)
(* what the step writes; a failed write returns Err.                       *)
(***************************************************************************)
Notification(was) ==
    [type |-> IF was[1] THEN "registered" ELSE "unregistered",
     x |-> was[2][1], y |-> was[2][2], what |-> was[3]]

\* Mutant: only a null cookie is left out.
send_response_unless_null(conn, json, cookie) ==
    IF "null" \in DOMAIN cookie
    THEN Sending(conn, << json >>)
    ELSE Sending(conn, << json @@ [cookie |-> cookie] >>)

\* send_response: a cookie that is null, an object or an array is left out.
send_response(conn, json, cookie) ==
    IF "null" \in DOMAIN cookie \/ "object" \in DOMAIN cookie \/ "array" \in DOMAIN cookie
    THEN Sending(conn, << json >>)
    ELSE Sending(conn, << json @@ [cookie |-> cookie] >>)

drained(m, id) ==
    [m EXCEPT !.registration_senders =
        [i \in 1..Len(@) |-> IF @[i].id = id THEN [@[i] EXCEPT !.queue = << >>]
                              ELSE @[i]]]

\* The try_recv loop and the flush after it.
drain(m, conn, client_id, writable) ==
    IF ~writable THEN ended(m, conn, client_id, "err")
    ELSE [m |-> drained(m, client_id),
          conn |-> [Sending(conn, [i \in 1..Len(receiver(m, client_id)[1].queue) |->
                                      Notification(receiver(m, client_id)[1].queue[i])])
                       EXCEPT !.state = "steady"]]

\* registrations.next() yields an event.
notify(m, conn, client_id, writable) ==
    IF ~writable THEN ended(m, conn, client_id, "err")
    ELSE [m |-> received(m, client_id),
          conn |-> Sending(conn, << Notification(Head(receiver(m, client_id)[1].queue)) >>)]

\* ping.tick()
tick(m, conn, client_id, writable) ==
    IF ~writable THEN ended(m, conn, client_id, "err")
    ELSE [m |-> m, conn |-> Sending(conn, << [type |-> "ping"] >>)]

\* expect_int::<T>, where T is the integers from lo to hi.
expect_int(v, lo, hi) ==
    IF IsSome(as_i64(v)) /\ lo <= Unwrap(as_i64(v)) /\ Unwrap(as_i64(v)) <= hi
    THEN as_i64(v)
    ELSE None

\* str::ends_with, on the names of buildings: a prefix and a suffix.
NamePrefixes == { "", "Gas", "Pump" }
ends_with(what, suffix) == \E prefix \in NamePrefixes : what = prefix \o suffix

register_maybe_offset(what, recv_offset) ==
    IF ends_with(what, "Recver") THEN recv_offset
    ELSE IF ends_with(what, "Sender") THEN 0 - recv_offset
    ELSE 0

recv_offset_y(offset_mode) == IF offset_mode THEN 1 ELSE 0

\* a + b on i32: None is the panic of a build with overflow checks, and a
\* build without them wraps around.
add_i32(a, b, overflow_checks) ==
    IF I32_MIN <= a + b /\ a + b <= I32_MAX THEN Some(a + b)
    ELSE IF overflow_checks THEN None
    ELSE Some(WrapI32(a + b))

PointRequests ==
    { "send_joules", "recv_joules", "send_packet", "recv_packet", "send_object",
      "recv_object", "register", "unregister" }

IsPhase(v) == IsStr(v) /\ v.str \in Phases
\* serde_json::from_value::<MatPacket> succeeds.
IsPacket(v) == "mass" \in DOMAIN v

\* The fields an arm reads before it computes its point.
parsed(message, typ) ==
    /\ IsSome(expect_int(Field(message, "x"), I32_MIN, I32_MAX))
    /\ IsSome(expect_int(Field(message, "y"), I32_MIN, I32_MAX))
    /\ typ = "send_joules" => IsSome(expect_int(Field(message, "joules"), 0, U32_MAX))
    /\ typ = "recv_joules" => IsSome(expect_int(Field(message, "max_joules"), 0, U32_MAX))
    /\ typ = "send_packet" =>
           IsPacket(Field(message, "packet")) /\ IsPhase(Field(message, "phase"))
    /\ typ = "recv_packet" => IsPhase(Field(message, "phase"))
    /\ typ = "send_object" => IsStr(Field(message, "object"))
    /\ typ \in { "register", "unregister" } => IsStr(Field(message, "what"))

\* What the arm adds to y.
y_offset(message, typ, offset_mode) ==
    IF typ \in { "recv_joules", "recv_packet", "recv_object" }
    THEN recv_offset_y(offset_mode)
    ELSE IF typ \in { "register", "unregister" }
    THEN register_maybe_offset(message.what.str, recv_offset_y(offset_mode))
    ELSE 0

\* The arm of the message's type, at its point.
performed(m, client_id, message, typ, loc) ==
    CASE typ = "send_joules" -> msg_send_joules(m, client_id, loc, message.joules.int)
      [] typ = "recv_joules" -> msg_recv_joules(m, client_id, loc, message.max_joules.int)
      [] typ = "send_packet" ->
             msg_send_packet(m, client_id, loc, message.packet, message.phase.str)
      [] typ = "recv_packet" -> msg_recv_packet(m, client_id, loc, message.phase.str)
      [] typ = "send_object" -> msg_send_object(m, client_id, loc, message.object.str)
      [] typ = "recv_object" -> msg_recv_object(m, client_id, loc)
      [] typ = "register" -> msg_register(m, client_id, loc, message.what.str)
      [] typ = "unregister" -> msg_unregister(m, client_id, loc, message.what.str)

\* Mutant: recv_joules answers with the reply of send_joules.
Reply_sent_for_got(message, typ, ret) ==
    IF typ = "ping" THEN [type |-> "pong"]
    ELSE [type |-> IF typ \in { "send_joules", "recv_joules" } THEN "sent_joules"
                   ELSE IF typ = "send_packet" THEN "sent_packet"
                   ELSE IF typ = "recv_packet" THEN "got_packet"
                   ELSE IF typ = "send_object" THEN "sent_object"
                   ELSE "got_object",
          x |-> message.x.int, y |-> message.y.int]

\* The json! of the arm's reply; x and y are those of the request.
Reply(message, typ, ret) ==
    CASE typ = "send_joules" ->
             [type |-> "sent_joules", x |-> message.x.int, y |-> message.y.int,
              spare |-> ret]
      [] typ = "recv_joules" ->
             [type |-> "got_joules", x |-> message.x.int, y |-> message.y.int,
              joules |-> ret]
      [] typ = "send_packet" ->
             [type |-> "sent_packet", x |-> message.x.int, y |-> message.y.int,
              accepted |-> ret]
      [] typ = "recv_packet" ->
             [type |-> "got_packet", x |-> message.x.int, y |-> message.y.int,
              phase |-> message.phase.str, packet |-> ret]
      [] typ = "send_object" ->
             [type |-> "sent_object", x |-> message.x.int, y |-> message.y.int,
              accepted |-> ret]
      [] typ = "recv_object" ->
             [type |-> "got_object", x |-> message.x.int, y |-> message.y.int,
              object |-> ret]

\* Mutant: a packet or an object the map refuses ends the connection.
answered_refusal_is_fatal(conn, client_id, message, typ, r, writable) ==
    IF r.op = "fatal" THEN [m |-> r.m, conn |-> [conn EXCEPT !.state = "closed", !.exit = "err"]]
    ELSE IF ~writable \/ (typ \in { "send_packet", "send_object" } /\ ~r.ret)
    THEN ended(r.m, conn, client_id, "err")
    ELSE IF typ \in { "register", "unregister" } THEN [m |-> r.m, conn |-> conn]
    ELSE [m |-> r.m,
          conn |-> send_response(conn, Reply(message, typ, r.ret), Field(message, "cookie"))]

\* After the arm: Err from the arm, the reply if the type has one, the flush.
answered(conn, client_id, message, typ, r, writable) ==
    IF r.op = "fatal" THEN [m |-> r.m, conn |-> [conn EXCEPT !.state = "closed", !.exit = "err"]]
    ELSE IF ~writable THEN ended(r.m, conn, client_id, "err")
    ELSE IF typ \in { "register", "unregister" } THEN [m |-> r.m, conn |-> conn]
    ELSE [m |-> r.m,
          conn |-> send_response(conn, Reply(message, typ, r.ret), Field(message, "cookie"))]

located(m, conn, client_id, message, typ, y, writable) ==
    IF ~IsSome(y) THEN panicked(m, conn, client_id)
    ELSE answered(conn, client_id, message, typ,
                  performed(m, client_id, message, typ, << message.x.int, Unwrap(y) >>),
                  writable)

typed(m, conn, client_id, options, message, typ, writable) ==
    IF typ = "ping"
    THEN IF writable
         THEN [m |-> m,
               conn |-> send_response(conn, [type |-> "pong"], Field(message, "cookie"))]
         ELSE ended(m, conn, client_id, "err")
    ELSE IF typ = "pong"
    THEN IF writable THEN [m |-> m, conn |-> conn] ELSE ended(m, conn, client_id, "err")
    ELSE IF typ \notin PointRequests \/ ~parsed(message, typ)
    THEN ended(m, conn, client_id, "err")
    ELSE located(m, conn, client_id, message, typ,
                 add_i32(message.y.int, y_offset(message, typ, options.offset_mode),
                         options.overflow_checks),
                 writable)

\* client.next() yields a message.
request(m, conn, client_id, options, message, writable) ==
    IF ~IsStr(Field(message, "type")) THEN ended(m, Received(conn, message), client_id, "err")
    ELSE typed(m, Received(conn, message), client_id, options, message,
               Field(message, "type").str, writable)

\* The arm of a receiving request up to its first await: the fields are
\* read and the map operation is performed while the lock is held; the
\* reply is built and send_response is yet to complete.
awaiting(conn, message, r) ==
    [m |-> r.m,
     conn |-> [pending |-> << Reply(message, message.type.str, r.ret),
                              Field(message, "cookie") >>]
              @@ [conn EXCEPT !.state = "replying"]]

\* Mutant: the arm looks at the point under the lock and takes nothing.
locked_peeking(m, conn, client_id, options, message) ==
    awaiting(Received(conn, message), message,
             [performed(m, client_id, message, message.type.str,
                        << message.x.int,
                           message.y.int + y_offset(message, message.type.str,
                                                    options.offset_mode) >>)
              EXCEPT !.m = m])

locked(m, conn, client_id, options, message) ==
    awaiting(Received(conn, message), message,
             performed(m, client_id, message, message.type.str,
                       << message.x.int,
                          message.y.int + y_offset(message, message.type.str,
                                                   options.offset_mode) >>))

\* send_response and the flush complete, or fail and end the connection.
resumed(conn) == [f \in DOMAIN conn \ { "pending" } |-> conn[f]]
replied(m, conn, client_id, writable) ==
    IF ~writable THEN ended(m, resumed(conn), client_id, "err")
    ELSE [m |-> m,
          conn |-> [send_response(resumed(conn), conn.pending[1], conn.pending[2])
                    EXCEPT !.state = "steady"]]

(***************************************************************************)
(* The steps of a connection's task.                                       *)
(***************************************************************************)
Step(bound, client_id, r, op, arg) ==
    /\ stage = "serving"
    /\ UNCHANGED << stage, config, disk >>
    /\ IF bound = 0 THEN UNCHANGED nops ELSE nops < bound /\ nops' = nops + 1
    /\ conns' = [conns EXCEPT ![client_id] = r.conn]
    /\ Install([m |-> r.m, op |-> op, loc |-> <<0, 0>>, phase |-> "-",
                arg |-> << client_id, arg >>, ret |-> r.conn.state # "closed"])

Hello(bound, clients, messages, challenges) ==
    \E c \in clients, message \in messages, offsets \in challenges :
        /\ conns[c].state = "hello"
        /\ Step(bound, c, hello(Cur, conns[c], c, config.auth_file, offsets, message),
                "hello", message)

Auth(bound, clients, messages) ==
    \E c \in clients, message \in messages :
        /\ conns[c].state = "auth"
        /\ Step(bound, c, auth(Cur, conns[c], c, Unwrap(config.auth_file).len, message),
                "auth", message)

Hangup(bound, clients, hows) ==
    \E c \in clients, how \in hows :
        /\ conns[c].state # "closed"
        /\ Step(bound, c, hangup(Cur, conns[c], c, how), "hangup", [how |-> how])

Drain(bound, clients, writables) ==
    \E c \in clients, writable \in writables :
        /\ conns[c].state = "drain"
        /\ Step(bound, c, drain(Cur, conns[c], c, writable), "drain", [writable |-> writable])

Notify(bound, clients, writables) ==
    \E c \in clients, writable \in writables :
        /\ conns[c].state = "steady"
        /\ receiver(Cur, c)[1].queue # << >>
        /\ Step(bound, c, notify(Cur, conns[c], c, writable), "notify",
                [writable |-> writable])

Tick(bound, clients, writables) ==
    \E c \in clients, writable \in writables :
        /\ conns[c].state = "steady"
        /\ Step(bound, c, tick(Cur, conns[c], c, writable), "tick", [writable |-> writable])

Request(bound, clients, messages, writables) ==
    \E c \in clients, message \in messages, writable \in writables :
        /\ conns[c].state = "steady"
        /\ Step(bound, c, request(Cur, conns[c], c, config, message, writable),
                "request", message)

\* A receiving request whose task is suspended between the map operation and
\* the reply: other tasks run in between.
Locked(bound, clients, messages) ==
    \E c \in clients, message \in messages :
        /\ conns[c].state = "steady"
        /\ message.type.str \in { "recv_joules", "recv_packet", "recv_object" }
        /\ parsed(message, message.type.str)
        /\ IsSome(add_i32(message.y.int,
                          y_offset(message, message.type.str, config.offset_mode),
                          config.overflow_checks))
        /\ Step(bound, c, locked(Cur, conns[c], c, config, message), "locked", message)

Replied(bound, clients, writables) ==
    \E c \in clients, writable \in writables :
        /\ conns[c].state = "replying"
        /\ Step(bound, c, replied(Cur, conns[c], c, writable), "replied",
                [writable |-> writable])

(***************************************************************************)
(* Handshake and authentication: one connection, with and without a secret *)
(* file, first messages of every shape, and answers to the challenges that *)
(* match, do not match, or are not answers.                                *)
(***************************************************************************)
SecretLen == 2
HandshakeOptions ==
    { NoOptions,
      [NoOptions EXCEPT !.auth_file = Some([readable |-> TRUE, len |-> SecretLen])],
      [NoOptions EXCEPT !.auth_file = Some([readable |-> TRUE, len |-> 0])],
      [NoOptions EXCEPT !.auth_file = Some([readable |-> FALSE, len |-> SecretLen])] }

VersionInputs ==
    { Null, JStr("2"), JFloat, JInt(0 - 1), JInt(0), JInt(1), JInt(2), JInt(3),
      JInt(I64_MAX), JInt(I64_MAX + 1) }

HelloMessages ==
    { [type |-> JStr("hello"), compression |-> c, proto |-> p, version |-> v] :
          c \in { Null, JStr("Zlib"), JStr("Lz4") },
          p \in { JStr("oniz"), JStr("http"), Null },
          v \in VersionInputs }
    \cup { [type |-> JStr("hello"), proto |-> JStr("oniz"), version |-> v] :
              v \in VersionInputs }
    \cup { [type |-> JStr("hello"), proto |-> JStr("oniz")],
           [type |-> JStr("ping")],
           [proto |-> JStr("oniz"), version |-> JInt(2)] }

Challenges == [1..NUM_CHALLENGES -> {0, 1, 2}]

AuthMessages ==
    { [type |-> JStr("auth"), hash |-> calculated_hash(0, SecretLen)],
      [type |-> JStr("auth"), hash |-> calculated_hash(1, SecretLen)],
      [type |-> JStr("auth"), hash |-> JInt(0)],
      [type |-> JStr("auth")],
      [type |-> JStr("ping")],
      [hash |-> calculated_hash(0, SecretLen)] }

InitHandshake == InitState /\ config \in HandshakeOptions /\ disk = NoFiles
HandshakeStartup == Startup({ None })
HandshakeHello == Hello(0, {1}, HelloMessages, Challenges)
HandshakeAuth == Auth(0, {1}, AuthMessages)
HandshakeHangup == Hangup(0, {1}, { "eof", "error" })

NextHandshake == HandshakeStartup \/ HandshakeHello \/ HandshakeAuth \/ HandshakeHangup
SpecHandshake == InitHandshake /\ [][NextHandshake]_vars

\* C17: the outcome of the handshake is a function of the first message: an
\* unrecognised compression is answered with handshake_error
\* compression_type_unknown; otherwise a proto other than "oniz" with
\* unknown_protocol; otherwise a negative version with version_too_old, an
\* integer version above 2 with version_too_new, a missing or non-integer
\* version with bad_version. After any of these the connection is closed and
\* nothing else was sent; only versions 0, 1 and 2 proceed.
C17_HandshakeOutcome ==
    \A c \in Clients :
        IsSome(conns[c].hello) /\ Says(Field(Unwrap(conns[c].hello), "type"), "hello") =>
            LET message == Unwrap(conns[c].hello)
                compression == Field(message, "compression")
                version == Field(message, "version")
                sent == Out(conns[c])
                what == IF ~("null" \in DOMAIN compression \/ Says(compression, "Zlib"))
                        THEN "compression_type_unknown"
                        ELSE IF ~Says(Field(message, "proto"), "oniz")
                        THEN "unknown_protocol"
                        ELSE IF "int" \in DOMAIN version
                        THEN IF version.int < 0 THEN "version_too_old"
                             ELSE IF version.int > 2 THEN "version_too_new"
                             ELSE "proceed"
                        ELSE "bad_version"
            IN  IF what = "proceed"
                THEN version \in { JInt(0), JInt(1), JInt(2) }
                ELSE /\ conns[c].state = "closed"
                     /\ Len(sent) = 1
                     /\ sent[1].type = "handshake_error"
                     /\ sent[1].what = what

\* C18: a peer whose hello carries version 0 is never sent handshake_error.
C18_VersionZeroNeverSentHandshakeError ==
    \A c \in Clients :
        IsSome(conns[c].hello) /\ Field(Unwrap(conns[c].hello), "version") = JInt(0) =>
            \A i \in 1..Len(Out(conns[c])) : Out(conns[c])[i].type # "handshake_error"

\* C19: with a secret file configured, auth_ok is sent exactly when the
\* client answered each of the NUM_CHALLENGES need_auth challenges with the
\* matching hash; with fewer matches auth_bad is sent after the last
\* challenge and the connection ends gracefully; a message of another type,
\* or an auth without a string hash, ends it with an error and no auth_ok.
C19_AuthOkIffEveryChallengeAnswered ==
    \A c \in Clients :
        IsSome(config.auth_file) =>
            LET conn == conns[c]
                sent == Out(conn)
                got == In(conn)
                ok == \E i \in 1..Len(sent) : sent[i].type = "auth_ok"
                asked == { i \in 1..Len(sent) : sent[i].type = "need_auth" }
                matched == { i \in 1..Len(conn.answers) :
                                conn.answers[i][1] = conn.answers[i][2] }
                answer(message) ==
                    Says(Field(message, "type"), "auth") /\ IsStr(Field(message, "hash"))
            IN  /\ ok <=> Cardinality(matched) = NUM_CHALLENGES
                /\ ok => /\ Cardinality(asked) = NUM_CHALLENGES
                         /\ sent[Len(sent)].type = "auth_ok"
                /\ Len(conn.answers) = NUM_CHALLENGES /\ Cardinality(matched) < NUM_CHALLENGES
                       => /\ conn.state = "closed"
                          /\ conn.exit = "ok"
                          /\ sent[Len(sent)].type = "auth_bad"
                /\ \A i \in 2..Len(got) :
                       ~answer(got[i]) => conn.state = "closed" /\ conn.exit = "err" /\ ~ok

\* C19 witness: with a secret file configured, a client has answered the
\* three challenges, sent at different offsets, and was sent auth_ok.
C19_Witness ==
    \E c \in Clients :
        /\ IsSome(config.auth_file)
        /\ Len(conns[c].answers) = NUM_CHALLENGES
        /\ conns[c].answers[1][1] # conns[c].answers[2][1]
        /\ \E i \in 1..Len(Out(conns[c])) : Out(conns[c])[i].type = "auth_ok"

(***************************************************************************)
(* Registrations: two connections that register and unregister buildings   *)
(* at one tile: connection 1 sends the requests, connection 2 listens. A   *)
(* connection may end by EOF, by a message the loop rejects, or by the     *)
(* overflow of y + recv_offset_y in a build that checks for it. The loop   *)
(* of connection 1 is busy with its requests and leaves its events queued. *)
(***************************************************************************)
MaxConnOps == 3

BuildOptions ==
    { NoOptions,
      [NoOptions EXCEPT !.offset_mode = TRUE],
      [NoOptions EXCEPT !.offset_mode = TRUE, !.overflow_checks = TRUE] }

Hello2 == [type |-> JStr("hello"), proto |-> JStr("oniz"), version |-> JInt(2)]

FanoutNames == { "Pump", "GasRecver" }
FanoutRequests ==
    { [type |-> JStr("register"), x |-> JInt(0), y |-> JInt(0), what |-> JStr(n)] :
          n \in FanoutNames }
    \cup { [type |-> JStr("unregister"), x |-> JInt(0), y |-> JInt(0),
            what |-> JStr("GasRecver")],
           [type |-> JStr("recv_object"), x |-> JInt(0), y |-> JInt(I32_MAX)],
           [type |-> JStr("subscribe")] }

InitFanout == InitState /\ config \in BuildOptions /\ disk = NoFiles
FanoutStartup == Startup({ None })
FanoutHello == Hello(0, Clients, { Hello2 }, { << >> })
FanoutDrain == Drain(0, Clients, { TRUE })
FanoutRequest == Request(MaxConnOps, {1}, FanoutRequests, { TRUE })
FanoutNotify == Notify(0, {2}, { TRUE })
FanoutHangup == Hangup(MaxConnOps, Clients, { "eof" })

NextFanout ==
    \/ FanoutStartup
    \/ FanoutHello
    \/ FanoutDrain
    \/ FanoutRequest
    \/ FanoutNotify
    \/ FanoutHangup
SpecFanout == InitFanout /\ [][NextFanout]_vars

\* The number of registrations of a name at a point, and of the events of
\* one polarity about it in a sequence of events.
Registered(regs, loc, what) ==
    IF loc \in DOMAIN regs
    THEN Cardinality({ i \in 1..Len(regs[loc]) : regs[loc][i][2] = what })
    ELSE 0
Heard(events, polarity, loc, what) ==
    Cardinality({ i \in 1..Len(events) : events[i] = Event(polarity, loc, what) })
Notified(conn) ==
    LET notification(json) == json.type \in { "registered", "unregistered" }
    IN  SelectSeq(Out(conn), notification)

\* C11: a subscriber is handed, when it subscribes, exactly one (true, point,
\* name) event per registration then present; every later step appends to
\* what it has been handed one (true, ..) event per entry a register added and
\* one (false, ..) event per entry an unregister or unregister_all removed,
\* and nothing else; the events are written to its socket in the order they
\* were handed over, none lost or repeated; and replaying the events handed
\* over gives the map's registrations.
C11_SubscriberSeesEveryChange ==
    [][\A c \in Clients :
          LET mine(ch) == ch.id = c /\ ch.open
              before == SelectSeq(registration_senders, mine)
              after == SelectSeq(registration_senders', mine)
              old == IF before = << >> THEN << >> ELSE before[1].heard
              delta == SubSeq(after[1].heard, Len(old) + 1, Len(after[1].heard))
          IN  after # << >> =>
                /\ Len(after) = 1
                /\ Len(old) <= Len(after[1].heard)
                /\ SubSeq(after[1].heard, 1, Len(old)) = old
                /\ \A loc \in Points, what \in FanoutNames :
                     /\ Heard(delta, TRUE, loc, what) =
                            Max(0, Registered(registrations', loc, what)
                                   - (IF before = << >> THEN 0
                                      ELSE Registered(registrations, loc, what)))
                     /\ Heard(delta, FALSE, loc, what) =
                            Max(0, (IF before = << >> THEN 0
                                    ELSE Registered(registrations, loc, what))
                                   - Registered(registrations', loc, what))
                     /\ Heard(after[1].heard, TRUE, loc, what)
                            - Heard(after[1].heard, FALSE, loc, what)
                        = Registered(registrations', loc, what)
                /\ Notified(conns'[c])
                       \o [i \in 1..Len(after[1].queue) |-> Notification(after[1].queue[i])]
                   = [i \in 1..Len(after[1].heard) |-> Notification(after[1].heard[i])]
      ]_vars

\* C11 witness: connection 2 subscribed when a registration was present and
\* has since been handed a registered and an unregistered event, one of
\* which the loop has written to its socket.
C11_Witness ==
    \E i \in 1..Len(registration_senders) :
        /\ registration_senders[i].id = 2
        /\ registration_senders[i].open
        /\ Len(registration_senders[i].heard) = 3
        /\ registration_senders[i].heard[2][1]
        /\ ~registration_senders[i].heard[3][1]
        /\ Len(registration_senders[i].queue) = 1
        /\ Len(Notified(conns[2])) = 2
        /\ conns[2].state = "steady"

\* C12: once a connection's task has finished, for whatever reason, the map
\* holds no registration with its client id.
C12_NoRegistrationOutlivesItsConnection ==
    \A c \in Clients :
        conns[c].state = "closed" =>
            \A loc \in DOMAIN registrations :
                \A i \in 1..Len(registrations[loc]) : registrations[loc][i][1] # c

\* C14: unregister removes every entry of the client with the name at the
\* point and keeps the others in order, and posts to every subscriber one
\* (false, point, name) event per entry removed, none when nothing matches.
C14_UnregisterPostsOneEventPerEntry ==
    [][\A c \in Clients :
          LET message == last'.arg[2]
              loc == << message.x.int,
                        message.y.int
                        + register_maybe_offset(message.what.str,
                                                recv_offset_y(config.offset_mode)) >>
              vec == IF loc \in DOMAIN registrations THEN registrations[loc] ELSE << >>
              gone(e) == e[1] = c /\ e[2] = message.what.str
              keep(e) == ~gone(e)
              open(ch) == ch.open
              before == SelectSeq(registration_senders, open)
          IN  /\ last'.op = "request"
              /\ last'.arg[1] = c
              /\ Says(Field(message, "type"), "unregister")
              /\ conns'[c].state = "steady"
              => /\ (IF loc \in DOMAIN registrations' THEN registrations'[loc] ELSE << >>)
                    = SelectSeq(vec, keep)
                 /\ \A other \in DOMAIN registrations \ { loc } :
                        /\ other \in DOMAIN registrations'
                        /\ registrations'[other] = registrations[other]
                 /\ Len(SelectSeq(registration_senders', open)) = Len(before)
                 /\ \A i \in 1..Len(before) :
                        SelectSeq(registration_senders', open)[i].heard
                        = before[i].heard
                          \o [k \in 1..Len(SelectSeq(vec, gone)) |->
                                 Event(FALSE, loc, message.what.str)]
      ]_vars

\* C14 witness: an unregister has removed two entries at once while
\* connection 2 was subscribed, which was handed two unregistered events.
C14_Witness ==
    /\ last.op = "request"
    /\ Says(Field(last.arg[2], "type"), "unregister")
    /\ conns[1].state = "steady"
    /\ \E i \in 1..Len(registration_senders) :
        /\ registration_senders[i].id = 2
        /\ Len(registration_senders[i].heard) >= 2
        /\ ~registration_senders[i].heard[Len(registration_senders[i].heard)][1]
        /\ ~registration_senders[i].heard[Len(registration_senders[i].heard) - 1][1]

\* The loop of connection 2 is scheduled fairly and its socket takes what
\* the loop writes: an event that is queued for it is eventually written.
SpecFanoutFair == SpecFanout /\ WF_vars(FanoutNotify)

Queued(c) == IF receiver(Cur, c) = << >> THEN << >> ELSE receiver(Cur, c)[1].queue
SentTo(c, type) ==
    LET of_type(json) == json.type = type IN Len(SelectSeq(Out(conns[c]), of_type))

\* C13: if connection 1 registers a name, connection 2, while it stays in
\* the steady state, is eventually sent the registered notification; and
\* when connection 1 later ends, for any reason, connection 2 is eventually
\* sent an unregistered notification for every registered one it was sent.
C13_RegisteredThenUnregistered ==
    /\ (conns[2].state = "steady" /\ Queued(2) # << >>)
           ~> (conns[2].state # "steady" \/ Queued(2) = << >>)
    /\ [](conns[1].state = "steady" /\ conns[2].state = "steady"
          /\ SentTo(2, "registered") > SentTo(2, "unregistered")
          => [](conns[1].state = "closed"
                => <>(conns[2].state # "steady"
                      \/ SentTo(2, "registered") = SentTo(2, "unregistered"))))

(***************************************************************************)
(* Requests and replies: one connection that sends requests of every type  *)
(* with a reply, well-formed and not, while the keepalive timer fires and  *)
(* its own registrations are notified to it; a write may fail.             *)
(***************************************************************************)
MaxReplyOps == 3

ReplyRequests ==
    { [type |-> JStr("ping"), cookie |-> JInt(7)],
      [type |-> JStr("send_joules"), x |-> JInt(0), y |-> JInt(0), joules |-> JInt(5)],
      [type |-> JStr("send_joules"), x |-> JInt(0), y |-> JInt(0), joules |-> JInt(0 - 1)],
      [type |-> JStr("recv_joules"), x |-> JInt(0), y |-> JInt(0), max_joules |-> JInt(3)],
      [type |-> JStr("send_packet"), x |-> JInt(0), y |-> JInt(0), phase |-> JStr("Gas"),
       packet |-> MatPacket(1, 2, 300, None)],
      [type |-> JStr("recv_packet"), x |-> JInt(0), y |-> JInt(0), phase |-> JStr("Gas")],
      [type |-> JStr("send_object"), x |-> JInt(0), y |-> JInt(0),
       object |-> JStr(base64_encode(<< 0 >>))],
      [type |-> JStr("recv_object"), x |-> JInt(0), y |-> JInt(0)],
      [type |-> JStr("register"), x |-> JInt(0), y |-> JInt(0), what |-> JStr("Pump")] }

RepliesStartup == Startup({ None })
RepliesHello == Hello(0, {1}, { Hello2 }, { << >> })
RepliesDrain == Drain(0, {1}, { TRUE })
RepliesRequest == Request(MaxReplyOps, {1}, ReplyRequests, BOOLEAN)
RepliesNotify == Notify(0, {1}, { TRUE })
RepliesTick == Tick(MaxReplyOps, {1}, { TRUE })

NextReplies ==
    \/ RepliesStartup
    \/ RepliesHello
    \/ RepliesDrain
    \/ RepliesRequest
    \/ RepliesNotify
    \/ RepliesTick
SpecReplies == Init /\ [][NextReplies]_vars

\* The type of the reply to a request of each type that has one.
ReplyTypeOf ==
    [ping |-> "pong", send_joules |-> "sent_joules", recv_joules |-> "got_joules",
     send_packet |-> "sent_packet", recv_packet |-> "got_packet",
     send_object |-> "sent_object", recv_object |-> "got_object"]

\* The requests a connection received that have a reply, and the replies it
\* sent, in order.
Requests(conn) ==
    LET asks(message) ==
            IsStr(Field(message, "type")) /\ message.type.str \in DOMAIN ReplyTypeOf
    IN  SelectSeq(In(conn), asks)
Replies(conn) ==
    LET answers(json) == \E t \in DOMAIN ReplyTypeOf : json.type = ReplyTypeOf[t]
    IN  SelectSeq(Out(conn), answers)

\* C20 as stated: every request of a type that has a reply has got exactly
\* one reply, of the corresponding type, and the replies are in the order of
\* the requests.
C20_EveryRequestAnswered ==
    \A c \in Clients :
        /\ Len(Replies(conns[c])) = Len(Requests(conns[c]))
        /\ \A i \in 1..Len(Replies(conns[c])) :
               Replies(conns[c])[i].type = ReplyTypeOf[Requests(conns[c])[i].type.str]

\* C20 amended: the replies sent are those to the requests received, one
\* each, in order and of the corresponding type, also with pings and
\* notifications in between; only the last request may be without a reply,
\* and only when the connection ended while handling it.
C20_EveryRequestAnsweredOrLast ==
    \A c \in Clients :
        /\ \/ Len(Replies(conns[c])) = Len(Requests(conns[c]))
           \/ /\ Len(Replies(conns[c])) = Len(Requests(conns[c])) - 1
              /\ conns[c].state = "closed"
              /\ In(conns[c])[Len(In(conns[c]))] = Requests(conns[c])[Len(Requests(conns[c]))]
        /\ \A i \in 1..Len(Replies(conns[c])) :
               Replies(conns[c])[i].type = ReplyTypeOf[Requests(conns[c])[i].type.str]

\* C20 witness: two requests of different types were answered in order, with
\* a keepalive ping or a notification sent between the two replies.
C20_Witness ==
    \E i, j, k \in 1..Len(Out(conns[1])) :
        /\ i < j /\ j < k
        /\ Out(conns[1])[i].type = "sent_joules"
        /\ Out(conns[1])[j].type \in { "ping", "registered" }
        /\ Out(conns[1])[k].type = "got_joules"
        /\ Len(Requests(conns[1])) = 2

(***************************************************************************)
(* Snapshots: a server that starts on the files it finds, serves requests  *)
(* at one tile, saves when it closes down, with every outcome of the three *)
(* steps of the save, or dies, and is started again.                       *)
(***************************************************************************)
MaxSnapshotOps == 2

SavedTile(key, e, gas) ==
    [key |-> key, energy |-> e, gas_packets |-> gas, liquid_packets |-> << >>,
     objects |-> << >>]
OldSnapshot == Snapshot(<< SavedTile(<<0, 0>>, Some(12000), << >>) >>)
OddSnapshot ==
    Snapshot(<< SavedTile(<<0, 0, 1>>, Some(5), << >>),
                SavedTile(<<0, 1>>, None,
                          << to_value(MatPacket(1, 2, 300, None)),
                             [element |-> 1, mass |-> JNum(2), temperature |-> Null,
                              germs |-> None] >>) >>)
DiskInits ==
    { NoFiles,
      [NoFiles EXCEPT !.path = OldSnapshot],
      [NoFiles EXCEPT !.path = OddSnapshot, !.temp = Truncated],
      [NoFiles EXCEPT !.path = Truncated, !.backup = OldSnapshot] }

SnapshotPackets ==
    { MatPacket(1, 0, 300, None),
      MatPacket(1, 3, 320, Some([id |-> 7, count |-> 5])),
      MatPacket(2, 2, 300, None) }

InitSnapshot == InitState /\ config = NoOptions /\ disk \in DiskInits
SnapshotBoot == Boot
SnapshotSendJoules == SendJoules(MaxSnapshotOps, {1}, Origin, { 6000 })
SnapshotRecvJoules == RecvJoules(MaxSnapshotOps, {1}, Origin, { 6000 })
SnapshotSendPacket == SendPacket(MaxSnapshotOps, {1}, Origin, { "Gas" }, SnapshotPackets)
SnapshotRecvPacket == RecvPacket(MaxSnapshotOps, {1}, Origin, { "Gas" })
SnapshotSendObject == SendObject(MaxSnapshotOps, {1}, Origin, { base64_encode(<< 0, 255 >>) })
SnapshotRecvObject == RecvObject(MaxSnapshotOps, {1}, Origin)
SnapshotTrySave == TrySave({ "ok", "create", "write" })
SnapshotRenameBackup == RenameBackup
SnapshotRenameTemp == RenameTemp
SnapshotCrash == Crash
SnapshotRestart == Restart

NextSnapshot ==
    \/ SnapshotBoot
    \/ SnapshotSendJoules
    \/ SnapshotRecvJoules
    \/ SnapshotSendPacket
    \/ SnapshotRecvPacket
    \/ SnapshotSendObject
    \/ SnapshotRecvObject
    \/ SnapshotTrySave
    \/ SnapshotRenameBackup
    \/ SnapshotRenameTemp
    \/ SnapshotCrash
    \/ SnapshotRestart
SpecSnapshot == InitSnapshot /\ [][NextSnapshot]_vars

\* What a store holds at a point: 0 or the empty queue when it has no entry.
EnergyAt(e, loc) == IF loc \in DOMAIN e THEN e[loc] ELSE 0
QueueAt(q, loc) == IF loc \in DOMAIN q THEN q[loc] ELSE << >>

\* try_save, then clear, then try_load of what was saved.
Restored == try_load(clear(Cur), read_file(try_save(Cur)))

\* C15: saving the map and loading the file into the cleared map gives back
\* the energy of every point and its gas, liquid and object queues, in
\* order; points with zero energy and empty queues get no entry.
C15_SaveThenLoadRestores ==
    \A loc \in Points :
        /\ EnergyAt(Restored.energy, loc) = EnergyAt(energy, loc)
        /\ QueueAt(Restored.gas_packets, loc) = QueueAt(gas_packets, loc)
        /\ QueueAt(Restored.liquid_packets, loc) = QueueAt(liquid_packets, loc)
        /\ QueueAt(Restored.objects, loc) = QueueAt(objects, loc)
        /\ loc \in DOMAIN Restored.energy => Restored.energy[loc] > 0
        /\ loc \in DOMAIN Restored.gas_packets => Restored.gas_packets[loc] # << >>
        /\ loc \in DOMAIN Restored.liquid_packets => Restored.liquid_packets[loc] # << >>
        /\ loc \in DOMAIN Restored.objects => Restored.objects[loc] # << >>

\* C16: from the moment the save begins, if the save file held a complete
\* snapshot then, after every step and whatever the step's outcome, the save
\* file or the backup file holds a complete snapshot; and a save whose
\* temporary file could not be written leaves both as they were.
C16_SaveKeepsASnapshot ==
    last.op \in { "try_save", "rename_backup", "rename_temp" } =>
        /\ loads(last.arg[1].path) => loads(disk.path) \/ loads(disk.backup)
        /\ last.op = "try_save" /\ ~last.ret =>
               disk.path = last.arg[1].path /\ disk.backup = last.arg[1].backup

\* C16 witness: the save file held a snapshot, it was moved to the backup
\* file, and the move of the temporary file into its place failed.
C16_Witness ==
    /\ last.op = "rename_temp"
    /\ ~last.ret
    /\ loads(last.arg[1].path)
    /\ disk.path = None
    /\ disk.backup = last.arg[1].path
    /\ loads(disk.temp)
(***************************************************************************)
(* Cookies: one connection whose messages, from the hello on, carry a      *)
(* cookie of every JSON kind or none, with and without a secret file,      *)
(* while the keepalive timer fires and its registrations are notified.     *)
(***************************************************************************)
MaxCookieOps == 2

Cookies ==
    { JBool(FALSE), JInt(0), JInt(7), JFloat, JStr(""), JStr("a"), Null,
      JObject(<< >>), JObject(<< << "a", JInt(7) >> >>), JArray(<< >>),
      JArray(<< JInt(7) >>) }

WithCookie(messages) ==
    messages \cup { message @@ [cookie |-> cookie] : message \in messages, cookie \in Cookies }

CookieOptions ==
    { NoOptions, [NoOptions EXCEPT !.auth_file = Some([readable |-> TRUE, len |-> SecretLen])] }
CookieHellos ==
    { Hello2 @@ [cookie |-> JStr("a")], [Hello2 EXCEPT !.version = JInt(3)] @@ [cookie |-> JInt(7)] }
CookieAuths ==
    { [type |-> JStr("auth"), hash |-> calculated_hash(o, SecretLen), cookie |-> JStr("a")] :
          o \in {0, 1} }
CookieRequests ==
    WithCookie({ [type |-> JStr("ping")],
                 [type |-> JStr("send_joules"), x |-> JInt(0), y |-> JInt(0),
                  joules |-> JInt(5)],
                 [type |-> JStr("recv_object"), x |-> JInt(0), y |-> JInt(0)] })
    \cup { [type |-> JStr(t), x |-> JInt(0), y |-> JInt(0), what |-> JStr("Pump"),
            cookie |-> JInt(7)] : t \in { "register", "unregister" } }

InitCookies == InitState /\ config \in CookieOptions /\ disk = NoFiles
CookiesStartup == Startup({ None })
CookiesHello == Hello(0, {1}, CookieHellos, { << 0, 1, 0 >> })
CookiesAuth == Auth(0, {1}, CookieAuths)
CookiesDrain == Drain(0, {1}, { TRUE })
CookiesRequest == Request(MaxCookieOps, {1}, CookieRequests, { TRUE })
CookiesNotify == Notify(0, {1}, { TRUE })
CookiesTick == Tick(MaxCookieOps, {1}, { TRUE })

NextCookies ==
    \/ CookiesStartup
    \/ CookiesHello
    \/ CookiesAuth
    \/ CookiesDrain
    \/ CookiesRequest
    \/ CookiesNotify
    \/ CookiesTick
SpecCookies == InitCookies /\ [][NextCookies]_vars

\* A JSON boolean, number or string.
IsScalar(v) == \E kind \in { "bool", "int", "float", "str" } : kind \in DOMAIN v

\* C21: the reply a step sends to a request carries the request's cookie when
\* that is a boolean, a number or a string, and no cookie field when it is
\* absent, null, an object or an array; every other message a step sends
\* (ping, registered, unregistered, auth_ok, auth_bad, need_auth,
\* handshake_error) carries no cookie field, whatever the cookie of the
\* message that was received.
C21_CookieEchoedIffScalar ==
    [][\A c \in Clients :
          LET sent == SubSeq(Out(conns'[c]), Len(Out(conns[c])) + 1, Len(Out(conns'[c])))
          IN  \A i \in 1..Len(sent) :
                IF /\ last'.op = "request"
                   /\ last'.arg[1] = c
                   /\ \E t \in DOMAIN ReplyTypeOf : sent[i].type = ReplyTypeOf[t]
                THEN IF IsScalar(Field(last'.arg[2], "cookie"))
                     THEN /\ "cookie" \in DOMAIN sent[i]
                          /\ sent[i].cookie = last'.arg[2].cookie
                     ELSE "cookie" \notin DOMAIN sent[i]
                ELSE "cookie" \notin DOMAIN sent[i]
      ]_vars

\* C21 witness: a request with a string cookie was answered with it, and a
\* request with an object for cookie was answered without a cookie.
C21_Witness ==
    /\ Len(Requests(conns[1])) = 2
    /\ Len(Replies(conns[1])) = 2
    /\ Field(Requests(conns[1])[1], "cookie") = JStr("a")
    /\ Field(Replies(conns[1])[1], "cookie") = JStr("a")
    /\ "object" \in DOMAIN Field(Requests(conns[1])[2], "cookie")
    /\ "cookie" \notin DOMAIN Replies(conns[1])[2]
(***************************************************************************)
(* Requests the map cannot satisfy: one connection, with and without       *)
(* offset mode, on a map loaded from a snapshot whose stores at one tile   *)
(* are at their capacity (the last gas packet with room left, or none), or *)
(* on an empty map.                                                        *)
(***************************************************************************)
MaxSoftOps == 3

HalfGas == MatPacket(1, 2, 300, None)
SoftFiles ==
    { None,
      Some(<< Tile(<<0, 0>>, Some(MAX_STORED_ENERGY),
                   [i \in 1..MAX_STORED_PACKETS |-> FullGas], << >>,
                   [i \in 1..MAX_STORED_OBJECTS |-> CapObject]) >>),
      Some(<< Tile(<<0, 0>>, Some(MAX_STORED_ENERGY - 3),
                   [i \in 1..MAX_STORED_PACKETS |->
                       IF i < MAX_STORED_PACKETS THEN FullGas ELSE HalfGas],
                   << >>, << >>) >>) }
SoftOptions == { NoOptions, [NoOptions EXCEPT !.offset_mode = TRUE] }
SoftRequests ==
    { [type |-> JStr("send_joules"), x |-> JInt(0), y |-> JInt(0), joules |-> JInt(j)] :
          j \in { 0, 3, 6000 } }
    \cup { [type |-> JStr("recv_joules"), x |-> JInt(0), y |-> JInt(0),
             max_joules |-> JInt(3)] }
    \cup { [type |-> JStr("send_packet"), x |-> JInt(0), y |-> JInt(0),
             phase |-> JStr("Gas"), packet |-> p] :
               p \in { HalfGas, FullGas, MatPacket(2, 2, 300, None) } }
    \cup { [type |-> JStr("recv_packet"), x |-> JInt(0), y |-> JInt(0),
             phase |-> JStr(ph)] : ph \in Phases }
    \cup { [type |-> JStr("send_object"), x |-> JInt(0), y |-> JInt(0),
             object |-> JStr(CapObject)],
           [type |-> JStr("recv_object"), x |-> JInt(0), y |-> JInt(0)] }

InitSoft == InitState /\ config \in SoftOptions /\ disk = NoFiles
SoftStartup == Startup(SoftFiles)
SoftHello == Hello(0, {1}, { Hello2 }, { << >> })
SoftDrain == Drain(0, {1}, { TRUE })
SoftRequest == Request(MaxSoftOps, {1}, SoftRequests, { TRUE })

NextSoft == SoftStartup \/ SoftHello \/ SoftDrain \/ SoftRequest
SpecSoft == InitSoft /\ [][NextSoft]_vars

\* The point a request acts on, and the last message a connection sent.
Target(message) ==
    << message.x.int,
       message.y.int + y_offset(message, message.type.str, config.offset_mode) >>
LastSent(conn) == Out(conn)[Len(Out(conn))]

\* Whether the selected queue, full, has no packet the incoming one merges
\* into.
NoMerge(q, packet, phase) ==
    \A i \in 1..Len(q) : q[i].element # packet.element \/ ~has_room(q[i], phase)

MaxFatalOps == 1

FatalRegister == [type |-> JStr("register"), x |-> JInt(0), y |-> JInt(0), what |-> JStr("Pump")]
FatalRequests ==
    { FatalRegister,
      [type |-> JStr("subscribe")],
      [type |-> JStr("send_joules"), x |-> JInt(0), y |-> JInt(0), joules |-> JInt(0 - 1)],
      [type |-> JStr("recv_joules"), x |-> JInt(I32_MAX + 1), y |-> JInt(0),
       max_joules |-> JInt(3)],
      [type |-> JStr("send_packet"), x |-> JInt(0), y |-> JInt(0), phase |-> JStr("Gas"),
       packet |-> MatPacket(1, 5, 300, None)],
      [type |-> JStr("send_object"), x |-> JInt(0), y |-> JInt(0),
       object |-> JStr(base64_encode(<< 1, 2, 3, 4 >>))] }
OtherRequests ==
    { FatalRegister,
      [type |-> JStr("send_joules"), x |-> JInt(0), y |-> JInt(0), joules |-> JInt(5)],
      [type |-> JStr("send_joules"), x |-> JInt(0), y |-> JInt(0), joules |-> JInt(0)] }
\* The requests whose replies tell what a connection can observe of the map.
ProbeRequests ==
    OtherRequests
    \cup { [type |-> JStr("ping")],
           [type |-> JStr("recv_joules"), x |-> JInt(0), y |-> JInt(0),
            max_joules |-> JInt(6000)],
           [type |-> JStr("send_packet"), x |-> JInt(0), y |-> JInt(0), phase |-> JStr("Gas"),
            packet |-> HalfGas],
           [type |-> JStr("recv_packet"), x |-> JInt(0), y |-> JInt(0), phase |-> JStr("Gas")],
           [type |-> JStr("recv_joules"), x |-> JInt(0), y |-> JInt(0), max_joules |-> JInt(3)],
           [type |-> JStr("send_joules"), x |-> JInt(0), y |-> JInt(0),
            joules |-> JInt(MAX_STORED_ENERGY)],
           [type |-> JStr("send_packet"), x |-> JInt(0), y |-> JInt(0), phase |-> JStr("Gas"),
            packet |-> FullGas],
           [type |-> JStr("send_object"), x |-> JInt(0), y |-> JInt(0),
            object |-> JStr(CapObject)],
           [type |-> JStr("recv_object"), x |-> JInt(0), y |-> JInt(0)],
           [type |-> JStr("unregister"), x |-> JInt(0), y |-> JInt(0), what |-> JStr("Pump")] }

FatalStartup == Startup({ None })
FatalHello == Hello(0, Clients, { Hello2 }, { << >> })
FatalDrain == Drain(0, Clients, { TRUE })
FatalRequest == Request(0, {1}, FatalRequests, { TRUE })
FatalFrame == Hangup(0, {1}, { "error" })
OtherRequest == Request(MaxFatalOps, {2}, OtherRequests, { TRUE })

NextFatal ==
    \/ FatalStartup
    \/ FatalHello
    \/ FatalDrain
    \/ FatalRequest
    \/ FatalFrame
    \/ OtherRequest
SpecFatal == Init /\ [][NextFatal]_vars

\* The registrations of a client at a point, in order.
RegistrationsOf(regs, loc, c) ==
    LET mine(e) == e[1] = c IN SelectSeq(QueueAt(regs, loc), mine)

\* C23: a step in which a connection ends with an error leaves every other
\* connection as it is (its state and what it has received and sent), leaves
\* the energy, packets and objects of every point and the other connection's
\* registrations as they are, hands the other connection nothing but one
\* unregistered event per registration of the connection that ended, and
\* changes the answer to none of the requests the other connection may send
\* next, nor the notification it is sent next.
C23_FatalErrorClosesOnlyThatConnection ==
    [][\A c \in Clients :
          conns[c].state # "closed" /\ conns'[c].state = "closed" /\ conns'[c].exit = "err"
          => \A d \in Clients \ { c } :
               /\ conns'[d] = conns[d]
               /\ \A loc \in Points :
                     /\ EnergyAt(energy', loc) = EnergyAt(energy, loc)
                     /\ QueueAt(gas_packets', loc) = QueueAt(gas_packets, loc)
                     /\ QueueAt(liquid_packets', loc) = QueueAt(liquid_packets, loc)
                     /\ QueueAt(objects', loc) = QueueAt(objects, loc)
                     /\ RegistrationsOf(registrations', loc, d)
                        = RegistrationsOf(registrations, loc, d)
                     /\ RegistrationsOf(registrations', loc, c) = << >>
               /\ Len(receiver(Cur', d)) = Len(receiver(Cur, d))
               /\ receiver(Cur, d) # << >> /\ receiver(Cur, d)[1].open =>
                     LET before == receiver(Cur, d)[1]
                         after == receiver(Cur', d)[1]
                         delta == SubSeq(after.heard, Len(before.heard) + 1, Len(after.heard))
                     IN  /\ after.open
                         /\ after.heard = before.heard \o delta
                         /\ after.queue = before.queue \o delta
                         /\ \A i \in 1..Len(delta) : ~delta[i][1]
                         /\ \A loc \in Points, what \in { "Pump" } :
                               Heard(delta, FALSE, loc, what)
                               = Registered([l \in { loc } |->
                                                RegistrationsOf(registrations, loc, c)],
                                            loc, what)
               /\ conns[d].state = "steady" =>
                     /\ \A probe \in ProbeRequests :
                           request(Cur', conns'[d], d, config, probe, TRUE).conn
                           = request(Cur, conns[d], d, config, probe, TRUE).conn
                     /\ receiver(Cur, d)[1].queue # << >> =>
                           notify(Cur', conns'[d], d, TRUE).conn
                           = notify(Cur, conns[d], d, TRUE).conn
      ]_vars

\* C23 witness: connection 1 has ended on its registration over the cap,
\* where it was the only one registered and energy is stored; connection 2,
\* in the steady state, has been handed the seven unregistered events.
C23_Witness ==
    /\ last.op = "request"
    /\ last.arg = << 1, FatalRegister >>
    /\ conns[1].state = "closed"
    /\ conns[1].exit = "err"
    /\ conns[2].state = "steady"
    /\ EnergyAt(energy, <<0, 0>>) = 5
    /\ registrations = EmptyMap
    /\ receiver(Cur, 2) # << >>
    /\ Heard(receiver(Cur, 2)[1].heard, FALSE, <<0, 0>>, "Pump") = MAX_REGISTRATIONS
(***************************************************************************)
(* Offset mode: one connection, in a server with and without offset mode   *)
(* (and, with it, a build with and without overflow checks), that          *)
(* registers and unregisters buildings with names that end in "Recver", in *)
(* "Sender" or in neither, at y = 0 and at both ends of the i32 range, and *)
(* sends and receives energy, packets and objects at y = 0.                *)
(***************************************************************************)
MaxOffsetOps == 2

RecverNames == { "GasRecver", "Recver" }
SenderNames == { "GasSender", "Sender" }
OtherNames == { "Pump", "Gas" }
OffsetYs == { 0, I32_MAX, I32_MIN }
OffsetRequests ==
    { [type |-> JStr(t), x |-> JInt(0), y |-> JInt(y), what |-> JStr(n)] :
          t \in { "register", "unregister" }, y \in OffsetYs,
          n \in RecverNames \cup SenderNames \cup OtherNames }
    \cup { [type |-> JStr("send_joules"), x |-> JInt(0), y |-> JInt(0), joules |-> JInt(5)],
           [type |-> JStr("recv_joules"), x |-> JInt(0), y |-> JInt(0), max_joules |-> JInt(3)],
           [type |-> JStr("send_packet"), x |-> JInt(0), y |-> JInt(0), phase |-> JStr("Gas"),
            packet |-> HalfGas],
           [type |-> JStr("recv_packet"), x |-> JInt(0), y |-> JInt(0), phase |-> JStr("Gas")],
           [type |-> JStr("send_object"), x |-> JInt(0), y |-> JInt(0),
            object |-> JStr(CapObject)],
           [type |-> JStr("recv_object"), x |-> JInt(0), y |-> JInt(0)] }

InitOffset == InitState /\ config \in BuildOptions /\ disk = NoFiles
OffsetStartup == Startup({ None })
OffsetHello == Hello(0, {1}, { Hello2 }, { << >> })
OffsetDrain == Drain(0, {1}, { TRUE })
OffsetRequest == Request(MaxOffsetOps, {1}, OffsetRequests, { TRUE })

NextOffset == OffsetStartup \/ OffsetHello \/ OffsetDrain \/ OffsetRequest
SpecOffset == InitOffset /\ [][NextOffset]_vars

\* The points the scenario's requests can name or reach.
OffsetPoints ==
    { << 0, y >> : y \in { I32_MIN - 1, I32_MIN, I32_MIN + 1, 0 - 1, 0, 1,
                           I32_MAX - 1, I32_MAX, I32_MAX + 1 } }

\* The stores of a point before and after a step.
TileAt(loc) ==
    << EnergyAt(energy, loc), QueueAt(gas_packets, loc), QueueAt(liquid_packets, loc),
       QueueAt(objects, loc), QueueAt(registrations, loc) >>
TileAfter(loc) ==
    << EnergyAt(energy', loc), QueueAt(gas_packets', loc), QueueAt(liquid_packets', loc),
       QueueAt(objects', loc), QueueAt(registrations', loc) >>

\* C24: a register or unregister request at (x, y) changes the registrations
\* of the point (x, y + 1) when offset mode is on and the name ends in
\* "Recver", of (x, y - 1) when it is on and the name ends in "Sender", and
\* of (x, y) otherwise; a send_joules, send_packet or send_object request
\* changes the point (x, y), and without offset mode a recv_joules,
\* recv_packet or recv_object request does; no request changes another
\* point.
C24_OffsetModeShiftsRegistrations ==
    [][\A c \in Clients :
          last'.op = "request" /\ last'.arg[1] = c =>
            LET message == last'.arg[2]
                typ == message.type.str
                shift == IF typ \in { "register", "unregister" } /\ config.offset_mode
                         THEN IF message.what.str \in RecverNames THEN 1
                              ELSE IF message.what.str \in SenderNames THEN 0 - 1
                              ELSE 0
                         ELSE 0
                loc == << message.x.int, message.y.int + shift >>
                mine(e) == e = << c, message.what.str >>
                others(e) == ~mine(e)
            IN  typ \in { "register", "unregister", "send_joules", "send_packet",
                          "send_object" }
                \/ ~config.offset_mode
                => /\ \A other \in OffsetPoints \ { loc } : TileAfter(other) = TileAt(other)
                   /\ typ = "register" =>
                          TileAfter(loc)[5] = Append(TileAt(loc)[5], << c, message.what.str >>)
                   /\ typ = "unregister" =>
                          TileAfter(loc)[5] = SelectSeq(TileAt(loc)[5], others)
                   /\ typ = "send_joules" =>
                          TileAfter(loc)[1] = TileAt(loc)[1] + message.joules.int
                   /\ typ = "recv_joules" =>
                          TileAfter(loc)[1]
                          = TileAt(loc)[1] - Min(TileAt(loc)[1], message.max_joules.int)
                   /\ typ = "send_packet" => TileAfter(loc)[2] # TileAt(loc)[2]
                   /\ typ = "recv_packet" /\ TileAt(loc)[2] # << >> =>
                          TileAfter(loc)[2] = Tail(TileAt(loc)[2])
                   /\ typ = "send_object" => Len(TileAfter(loc)[4]) = Len(TileAt(loc)[4]) + 1
                   /\ typ = "recv_object" /\ TileAt(loc)[4] # << >> =>
                          TileAfter(loc)[4] = Tail(TileAt(loc)[4])
      ]_vars

(***************************************************************************)
(* Concurrent receivers: two connections ask for joules, packets and       *)
(* objects at one point of a loaded map. A task holds the lock for the map *)
(* operation only, and is suspended before its reply is written, so the    *)
(* map operations and the replies of the two tasks interleave freely.      *)
(***************************************************************************)
MaxRaceOps == 3

RaceGas == << MatPacket(1, 4, 300, None), MatPacket(2, 4, 300, None) >>
RaceObjects == << base64_encode(<<0>>), base64_encode(<<255>>) >>
RaceFile == << Tile(<<0, 0>>, Some(7), RaceGas, << >>, RaceObjects) >>
RaceRequests ==
    { [type |-> JStr("recv_joules"), x |-> JInt(0), y |-> JInt(0), max_joules |-> JInt(5)],
      [type |-> JStr("recv_packet"), x |-> JInt(0), y |-> JInt(0), phase |-> JStr("Gas")],
      [type |-> JStr("recv_object"), x |-> JInt(0), y |-> JInt(0)] }

RaceStartup == Startup({ Some(RaceFile) })
RaceHello == Hello(0, Clients, { Hello2 }, { << >> })
RaceDrain == Drain(0, Clients, { TRUE })
RaceLocked == Locked(MaxRaceOps, Clients, RaceRequests)
RaceReplied == Replied(0, Clients, { TRUE })

NextRace == RaceStartup \/ RaceHello \/ RaceDrain \/ RaceLocked \/ RaceReplied
SpecRace == Init /\ [][NextRace]_vars

\* What a connection's task has been handed by the map so far: the replies
\* it wrote, and the one it is about to write.
Got(c) ==
    Replies(conns[c])
    \o (IF conns[c].state = "replying" THEN << conns[c].pending[1] >> ELSE << >>)

\* How many of the replies hand out the value v in the field.
RECURSIVE Handed(_, _, _)
Handed(replies, field, v) ==
    IF replies = << >> THEN 0
    ELSE (IF field \in DOMAIN Head(replies) /\ Head(replies)[field] = Some(v) THEN 1 ELSE 0)
         + Handed(Tail(replies), field, v)
Held(queue, v) == Cardinality({ i \in 1..Len(queue) : queue[i] = v })

RECURSIVE JoulesHanded(_)
JoulesHanded(replies) ==
    IF replies = << >> THEN 0
    ELSE (IF "joules" \in DOMAIN Head(replies) THEN Head(replies).joules ELSE 0)
         + JoulesHanded(Tail(replies))

\* The requests in one order, each performed alone on the map the previous
\* one left.
RECURSIVE Serial(_, _)
Serial(m, order) ==
    IF order = << >> THEN << >>
    ELSE LET c == Head(order)[1]
             message == Requests(conns[c])[Head(order)[2]]
             r == performed(m, c, message, message.type.str,
                            << message.x.int, message.y.int >>)
         IN  << Reply(message, message.type.str, r.ret) >> \o Serial(r.m, Tail(order))

Asked == { << c, k >> : c \in Clients, k \in 1..MaxRaceOps + 1 }
RaceInstances == { i \in Asked : i[2] <= Len(Requests(conns[i[1]])) }
SerialOrders ==
    { o \in [1..Cardinality(RaceInstances) -> RaceInstances] :
        /\ \A i, j \in DOMAIN o : i # j => o[i] # o[j]
        /\ \A i, j \in DOMAIN o : i < j /\ o[i][1] = o[j][1] => o[i][2] < o[j][2] }

\* C25: whatever the interleaving of the tasks, every packet and every object
\* that was stored is either still stored or handed to exactly one requester;
\* the joules handed out are those missing from the store, so never more than
\* were stored; and there is a serial order of the requests, keeping each
\* connection's own order, in which every request gets the reply it got.
C25_ConcurrentReceiversAreSerializable ==
    stage = "serving" =>
        /\ \A i \in 1..Len(RaceGas) :
               Held(QueueAt(gas_packets, <<0, 0>>), RaceGas[i])
               + Handed(Got(1) \o Got(2), "packet", RaceGas[i]) = 1
        /\ \A i \in 1..Len(RaceObjects) :
               Held(QueueAt(objects, <<0, 0>>), Unwrap(base64_decode(RaceObjects[i])))
               + Handed(Got(1) \o Got(2), "object", RaceObjects[i]) = 1
        /\ JoulesHanded(Got(1) \o Got(2)) + EnergyAt(energy, <<0, 0>>)
               = Unwrap(RaceFile[1].energy)
        /\ \A c \in Clients : Len(Got(c)) = Len(Requests(conns[c]))
        /\ \E o \in SerialOrders :
               \A i \in DOMAIN o :
                   Serial(startup(Map_new, Some(RaceFile)).m, o)[i] = Got(o[i][1])[o[i][2]]

\* Connection 1 took the first packet and is still to write its reply, while
\* connection 2, which came second, has already been sent the second packet.
C25_Witness ==
    /\ conns[1].state = "replying"
    /\ conns[1].pending[1].type = "got_packet"
    /\ conns[1].pending[1].packet = Some(RaceGas[1])
    /\ Replies(conns[2]) # << >>
    /\ LastSent(conns[2]).type = "got_packet"
    /\ LastSent(conns[2]).packet = Some(RaceGas[2])
    /\ QueueAt(gas_packets, <<0, 0>>) = << >>

(***************************************************************************)
(* The bytes of a connection. A byte of plain text is a newline, a space,  *)
(* or one of the two bytes that json.to_string() makes of a value (so that *)
(* a read may end in the middle of a message). A byte of a zlib stream is  *)
(* the stream's header, a unit of deflated data that stands for up to two  *)
(* bytes of plain text, or the empty block of a sync flush.                *)
(***************************************************************************)
NL == [nl |-> TRUE]
SP == [sp |-> TRUE]
to_string(json) == << [text |-> json, at |-> 1], [text |-> json, at |-> 2] >>

ZHeader == [z |-> "header"]
ZSync == [z |-> "sync"]
ZData(plain) == [z |-> "data", plain |-> plain]

IsNL(b) == "nl" \in DOMAIN b
IsZ(b) == "z" \in DOMAIN b
Drop(s, n) == SubSeq(s, n + 1, Len(s))
Take(s, n) == SubSeq(s, 1, n)

\* What deflate makes of plain text, and inflate of deflated data.
RECURSIVE Deflated(_)
Deflated(plain) ==
    IF plain = << >> THEN << >>
    ELSE << ZData(Take(plain, Min(2, Len(plain)))) >> \o Deflated(Drop(plain, Min(2, Len(plain))))

RECURSIVE Inflated(_)
Inflated(stream) ==
    IF stream = << >> THEN << >>
    ELSE (IF IsZ(Head(stream)) /\ Head(stream).z = "data" THEN Head(stream).plain ELSE << >>)
         \o Inflated(Tail(stream))

(***************************************************************************)
(* main.rs: MessageCoder.                                                  *)
(***************************************************************************)
\* The leading newlines decode drops, and the place of the first newline
\* after them (0: none).
RECURSIVE skipped(_)
skipped(src) == IF src # << >> /\ IsNL(src[1]) THEN skipped(Tail(src)) ELSE src

newline_at(src) ==
    IF \E n \in 1..Len(src) : IsNL(src[n])
    THEN CHOOSE n \in 1..Len(src) : IsNL(src[n]) /\ \A k \in 1..(n - 1) : ~IsNL(src[k])
    ELSE 0

\* from_utf8 and serde_json::from_str of a line: white space around the
\* value is allowed; the value must be an object.
is_blank(b) == IsNL(b) \/ "sp" \in DOMAIN b
is_object(json) == DOMAIN json \cap { "null", "str", "int", "float", "bool", "array" } = { }
from_str(line) ==
    LET text == SelectSeq(line, LAMBDA b : ~is_blank(b))
    IN  IF Len(text) = 2 /\ (\A i \in 1..2 : "text" \in DOMAIN text[i] /\ text[i].at = i)
           /\ text[1].text = text[2].text
        THEN IF is_object(text[1].text) THEN [ok |-> TRUE, item |-> Some(text[1].text)]
             ELSE [ok |-> FALSE, what |-> "Received non-object JSON"]
        ELSE [ok |-> FALSE, what |-> "Received invalid JSON"]

\* Mutant: the length is checked before the newline is looked for.
decode_at_length_first(src, n) ==
    IF Len(src) > 10000 THEN [src |-> src, ok |-> FALSE, what |-> "Improbably long message"]
    ELSE IF n > 0 THEN [src |-> Drop(src, n)] @@ from_str(Take(src, n))
    ELSE [src |-> src, ok |-> TRUE, item |-> None]

\* Decoder::decode: src afterwards, and Ok(Some(x)), Ok(None) or Err.
decode_at(src, n) ==
    IF n > 0 THEN [src |-> Drop(src, n)] @@ from_str(Take(src, n))
    ELSE IF Len(src) > 10000 THEN [src |-> src, ok |-> FALSE, what |-> "Improbably long message"]
    ELSE [src |-> src, ok |-> TRUE, item |-> None]
decode(src) == decode_at(skipped(src), newline_at(skipped(src)))

\* Encoder::encode.
encode(json, dst) == dst \o to_string(json) \o << NL >>

(***************************************************************************)
(* mit_zlib.rs. flate2's Compress is seen through what compress_vec may do *)
(* with the room left in the vector (it never grows it): the output that   *)
(* is still owed comes first, and input is taken only when nothing is      *)
(* owed; FlushCompress::None may keep the input, or put out the header or  *)
(* a finished block, as the library and the amount of data decide (emits); *)
(* FlushCompress::Sync puts out everything followed by the empty block.    *)
(* total_in and total_out are the streams behind flate2's counters.        *)
(***************************************************************************)
Capacity == 256
Emits == { "nothing", "header", "block" }

Compress_new == [head |-> FALSE, held |-> << >>, owed |-> << >>,
                 total_in |-> << >>, total_out |-> << >>]

deflate_out(z, coded, room) ==
    [z EXCEPT !.owed = Drop(coded, Min(room, Len(coded))),
              !.total_out = @ \o Take(coded, Min(room, Len(coded)))]

compress(z, input, room, flush, emits) ==
    IF Len(z.owed) >= room /\ z.owed # << >> THEN deflate_out(z, z.owed, room)
    ELSE IF flush = "Sync"
    THEN deflate_out([z EXCEPT !.head = TRUE, !.held = << >>, !.total_in = @ \o input],
                     z.owed \o (IF z.head THEN << >> ELSE << ZHeader >>)
                            \o Deflated(z.held \o input) \o << ZSync >>,
                     room)
    ELSE IF emits = "block"
    THEN deflate_out([z EXCEPT !.head = TRUE, !.held = << >>, !.total_in = @ \o input],
                     z.owed \o (IF z.head THEN << >> ELSE << ZHeader >>)
                            \o Deflated(z.held \o input),
                     room)
    ELSE IF emits = "header"
    THEN deflate_out([z EXCEPT !.head = TRUE, !.held = @ \o input, !.total_in = @ \o input],
                     z.owed \o (IF z.head THEN << >> ELSE << ZHeader >>), room)
    ELSE deflate_out([z EXCEPT !.held = @ \o input, !.total_in = @ \o input], z.owed, room)

\* compress_vec(input, &mut vec, flush): the vector afterwards.
compress_vec(z, input, vec, flush, emits) ==
    [zlib |-> compress(z, input, Capacity - Len(vec), flush, emits),
     buf |-> vec \o Drop(compress(z, input, Capacity - Len(vec), flush, emits).total_out,
                         Len(z.total_out))]

\* Decompress::decompress(input, output): the units of input whose plain
\* text fits the output are taken; a byte that is not of a zlib stream is
\* an error.
RECURSIVE decompress(_, _)
decompress(input, room) ==
    IF input = << >> THEN [ok |-> TRUE, wrote |-> 0, out |-> << >>]
    ELSE IF ~IsZ(Head(input)) THEN [ok |-> FALSE, wrote |-> 0, out |-> << >>]
    ELSE IF Len(Inflated(<< Head(input) >>)) > room
    THEN [ok |-> TRUE, wrote |-> 0, out |-> << >>]
    ELSE LET rest == decompress(Tail(input), room - Len(Inflated(<< Head(input) >>)))
         IN  [ok |-> rest.ok, wrote |-> 1 + rest.wrote,
              out |-> Inflated(<< Head(input) >>) \o rest.out]

Pending == [poll |-> "pending"]
Ready(v) == [poll |-> "ready", ok |-> v]
Failed(what) == [poll |-> "ready", err |-> what]
IsReady(p) == "ok" \in DOMAIN p

make_writer ==
    [zlib |-> Compress_new, buf |-> << >>, cursor |-> 0, unflushed_data_sent |-> FALSE]
make_reader(slice) == [buf |-> slice, cursor |-> 0, total_in |-> << >>]

\* The transport of a connection: the socket (peer: the bytes of the client
\* that are on their way, closed: whether the client closes after them,
\* sent: the bytes written to it), the parts of the Framed, the
\* WrappedSocket's reader and writer, and where the task is: reading, about
\* to send the first message of outq, or flushing. taken and encoded are
\* the bytes the decoder has split off and the encoder has produced; ret is
\* what the last poll of the socket wrapper returned.
Framed_new(stream, closed) ==
    [stream |-> stream, peer |-> stream, closed |-> closed, sent |-> << >>,
     kind |-> "TcpStream", reader |-> make_reader(<< >>), writer |-> make_writer,
     read_buf |-> << >>, is_readable |-> FALSE, eof |-> FALSE, write_buf |-> << >>,
     taken |-> << >>, encoded |-> << >>, outq |-> << >>, pc |-> "read",
     ret |-> [op |-> "new"]]

\* OwnedWriteHalf::poll_write: the socket takes up to room bytes now.
tcp_poll_write(t, buf, room) ==
    IF room = 0 THEN [t |-> t, ret |-> Pending]
    ELSE [t |-> [t EXCEPT !.sent = @ \o Take(buf, Min(room, Len(buf)))],
          ret |-> Ready(Min(room, Len(buf)))]

\* MitZlibWriter::soft_flush: ready only with the buffer written and cleared.
soft_flush(t, room) ==
    IF Len(t.writer.buf) - t.writer.cursor <= room
    THEN [t |-> [t EXCEPT !.sent = @ \o Drop(t.writer.buf, t.writer.cursor),
                          !.writer.buf = << >>, !.writer.cursor = 0],
          room |-> room - (Len(t.writer.buf) - t.writer.cursor), ready |-> TRUE]
    ELSE [t |-> [t EXCEPT !.sent = @ \o SubSeq(t.writer.buf, t.writer.cursor + 1,
                                               t.writer.cursor + room),
                          !.writer.cursor = @ + room],
          room |-> 0, ready |-> FALSE]

compressed(t, input, flush, emits) ==
    [t EXCEPT !.writer.zlib = compress_vec(t.writer.zlib, input, t.writer.buf, flush, emits).zlib,
              !.writer.buf = compress_vec(t.writer.zlib, input, t.writer.buf, flush, emits).buf,
              !.writer.unflushed_data_sent = (flush = "None")]

\* MitZlibWriter::poll_write.
poll_write(t, buf, room, emits) ==
    IF ~soft_flush(t, room).ready THEN [t |-> soft_flush(t, room).t, ret |-> Pending]
    ELSE IF buf = << >> THEN [t |-> soft_flush(t, room).t, ret |-> Ready(0)]
    ELSE LET flushed == soft_flush(compressed(soft_flush(t, room).t, buf, "None", emits),
                                   soft_flush(t, room).room)
         IN  [t |-> flushed.t, ret |-> IF flushed.ready THEN Ready(Len(buf)) ELSE Pending]

\* MitZlibWriter::poll_flush.
poll_flush_synced(t, room) ==
    [t |-> soft_flush(t, room).t,
     ret |-> IF soft_flush(t, room).ready THEN Ready(0) ELSE Pending]
poll_flush(t, room) ==
    IF ~t.writer.unflushed_data_sent THEN poll_flush_synced(t, room)
    ELSE IF ~soft_flush(t, room).ready THEN [t |-> soft_flush(t, room).t, ret |-> Pending]
    ELSE poll_flush_synced(compressed(soft_flush(t, room).t, << >>, "Sync", "nothing"),
                           soft_flush(t, room).room)

\* OwnedReadHalf::poll_read_buf: the socket hands over bytes of the peer's
\* that have arrived (k of them); 0 bytes once the peer has closed.
tcp_poll_read(t, k) ==
    IF k = 0
    THEN [t |-> t, bytes |-> << >>,
          ret |-> IF t.peer = << >> /\ t.closed THEN Ready(0) ELSE Pending]
    ELSE [t |-> [t EXCEPT !.peer = Drop(@, k)], bytes |-> Take(t.peer, k), ret |-> Ready(k)]

\* MitZlibReader::poll_read, from the decompress call on.
inflate(t, room) ==
    LET d == decompress(Drop(t.reader.buf, t.reader.cursor), room)
    IN  IF ~d.ok THEN [t |-> t, bytes |-> << >>, ret |-> Failed("decompression error 2")]
        ELSE [t |-> [t EXCEPT !.reader.cursor = @ + d.wrote,
                              !.reader.total_in =
                                  @ \o SubSeq(t.reader.buf, t.reader.cursor + 1,
                                              t.reader.cursor + d.wrote)],
              bytes |-> d.out, ret |-> Ready(Len(d.out))]

\* MitZlibReader::poll_read.
poll_read(t, k, room) ==
    IF t.reader.cursor < Len(t.reader.buf) THEN inflate(t, room)
    ELSE IF ~IsReady(tcp_poll_read(t, k).ret) \/ k = 0
    THEN [tcp_poll_read(t, k) EXCEPT !.t.reader.buf = << >>, !.t.reader.cursor = 0]
    ELSE inflate([tcp_poll_read(t, k).t EXCEPT !.reader.buf = tcp_poll_read(t, k).bytes,
                                               !.reader.cursor = 0], room)

(***************************************************************************)
(* wrapped.rs.                                                             *)
(***************************************************************************)
\* WrappedSocket's AsyncRead and AsyncWrite.
wrapped_poll_read(t, k, room) ==
    IF t.kind = "Zlib" THEN poll_read(t, k, room) ELSE tcp_poll_read(t, Min(k, room))
wrapped_poll_write(t, buf, room, emits) ==
    IF t.kind = "Zlib" THEN poll_write(t, buf, room, emits) ELSE tcp_poll_write(t, buf, room)
wrapped_poll_flush(t, room) ==
    IF t.kind = "Zlib" THEN poll_flush(t, room) ELSE [t |-> t, ret |-> Ready(0)]

\* Mutant: the socket is left as it is, whatever the hello asked for.
wrap_client_uncompressed(t, typ) ==
    [t EXCEPT !.sent = @ \o t.write_buf, !.write_buf = << >>,
              !.kind = "Uncompressed", !.is_readable = t.read_buf # << >>, !.eof = FALSE]

\* Mutant: the new Framed starts with an empty read buffer.
wrap_client_discarding(t, typ) ==
    [t EXCEPT !.sent = @ \o t.write_buf, !.write_buf = << >>,
              !.kind = IF typ = Some("Zlib") THEN "Zlib" ELSE "Uncompressed",
              !.reader = make_reader(<< >>),
              !.writer = make_writer,
              !.read_buf = << >>,
              !.is_readable = FALSE, !.eof = FALSE]

\* wrap_client: the old Framed's write buffer is written as it is; with
\* Zlib the whole read buffer becomes the reader's first input; what is
\* left of the read buffer is put into the new Framed's.
wrap_client(t, typ) ==
    [t EXCEPT !.sent = @ \o t.write_buf, !.write_buf = << >>,
              !.kind = IF typ = Some("Zlib") THEN "Zlib" ELSE "Uncompressed",
              !.reader = IF typ = Some("Zlib") THEN make_reader(t.read_buf) ELSE @,
              !.writer = make_writer,
              !.read_buf = IF typ = Some("Zlib") THEN << >> ELSE @,
              !.is_readable = (typ # Some("Zlib") /\ t.read_buf # << >>), !.eof = FALSE]

(***************************************************************************)
(* The Framed of a connection, one turn of a loop at a time: poll_next     *)
(* decodes what the read buffer holds or reads into it; poll_flush writes  *)
(* what the write buffer holds, then flushes.                              *)
(***************************************************************************)
decoded(t) ==
    [t EXCEPT !.read_buf = decode(t.read_buf).src,
              !.taken = @ \o Take(t.read_buf, Len(t.read_buf) - Len(decode(t.read_buf).src))]

framed_decode(t) ==
    IF ~decode(t.read_buf).ok THEN [t |-> decoded(t), yields |-> "err", item |-> None]
    ELSE IF IsSome(decode(t.read_buf).item)
    THEN [t |-> decoded(t), yields |-> "item", item |-> decode(t.read_buf).item]
    ELSE IF ~t.eof
    THEN [t |-> [decoded(t) EXCEPT !.is_readable = FALSE], yields |-> "-", item |-> None]
    ELSE IF decode(t.read_buf).src = << >>
    THEN [t |-> [decoded(t) EXCEPT !.is_readable = FALSE], yields |-> "eof", item |-> None]
    ELSE [t |-> decoded(t), yields |-> "err", item |-> None]

framed_read(t, r) ==
    [t |-> [r.t EXCEPT !.read_buf = @ \o r.bytes,
                       !.is_readable = IsReady(r.ret) \/ @,
                       !.eof = IsReady(r.ret) /\ r.ret.ok = 0,
                       !.ret = [op |-> "poll_read", poll |-> r.ret,
                                asked |-> t.kind # "Zlib"
                                          \/ t.reader.cursor >= Len(t.reader.buf),
                                inner |-> Len(t.peer) - Len(r.t.peer),
                                ended |-> t.peer = << >> /\ t.closed]],
     yields |-> IF r.ret.poll = "pending" \/ IsReady(r.ret) THEN "-" ELSE "err",
     item |-> None]

poll_next(t, k, room) ==
    IF t.is_readable THEN framed_decode(t) ELSE framed_read(t, wrapped_poll_read(t, k, room))

\* Sink::start_send.
start_send(t) ==
    [t EXCEPT !.write_buf = encode(Head(t.outq), @),
              !.encoded = encode(Head(t.outq), @),
              !.outq = Tail(@), !.pc = "flush"]

framed_write(t, w) ==
    [w.t EXCEPT !.write_buf = IF IsReady(w.ret) THEN Drop(@, w.ret.ok) ELSE @,
                !.ret = [op |-> "poll_write", poll |-> w.ret, buf |-> t.write_buf,
                         took |-> Drop(w.t.writer.zlib.total_in,
                                       Len(t.writer.zlib.total_in))]]
framed_flushed(t, w) ==
    [w.t EXCEPT !.pc = IF ~IsReady(w.ret) THEN "flush"
                       ELSE IF t.outq # << >> THEN "send" ELSE "read",
                !.ret = [op |-> "poll_flush", poll |-> w.ret]]
poll_flush_framed(t, room, emits) ==
    IF t.write_buf # << >>
    THEN framed_write(t, wrapped_poll_write(t, t.write_buf, room, emits))
    ELSE framed_flushed(t, wrapped_poll_flush(t, room))

(***************************************************************************)
(* A connection's task over its transport: what client.next() yields goes  *)
(* to the part of inner_client the task is in, and what that part sends is *)
(* encoded and flushed, one message after the other, before the task reads *)
(* again.                                                                  *)
(***************************************************************************)
\* The hello has arrived: the socket is wrapped as the hello asks, or as
\* None when the compression is not one the server knows.
hello_wrapped(t, message) ==
    IF ~Says(Field(message, "type"), "hello") THEN t
    ELSE wrap_client(t, compression_type(Field(message, "compression")).typ)

handled(m, conn, client_id, options, offsets, message) ==
    IF conn.state = "hello"
    THEN hello(m, [conn EXCEPT !.io = hello_wrapped(@, message)], client_id,
               options.auth_file, offsets, message)
    ELSE IF conn.state = "auth"
    THEN auth(m, conn, client_id, Unwrap(options.auth_file).len, message)
    ELSE request(m, conn, client_id, options, message, TRUE)

served(r, client_id) ==
    IF r.conn.state = "drain" THEN drain(r.m, r.conn, client_id, TRUE) ELSE r

\* The messages the part has sent are those the log has gained.
queued(conn, r) ==
    [m |-> r.m,
     conn |-> [r.conn EXCEPT !.io.outq = Drop(Out(r.conn), Len(Out(conn))),
                             !.io.pc = IF Len(Out(r.conn)) > Len(Out(conn))
                                       THEN "send" ELSE "read"]]

next(m, conn, client_id, options, offsets, p) ==
    IF p.yields = "item"
    THEN queued(conn, served(handled(m, [conn EXCEPT !.io = p.t], client_id, options,
                                     offsets, Unwrap(p.item)),
                             client_id))
    ELSE IF p.yields = "-" THEN [m |-> m, conn |-> [conn EXCEPT !.io = p.t]]
    ELSE hangup(m, [conn EXCEPT !.io = p.t], client_id,
                IF p.yields = "eof" THEN "eof" ELSE "error")

\* server_loop accepts a connection; the task makes a Framed of the socket.
Accept(clients, streams, closes) ==
    \E c \in clients, stream \in streams, closed \in closes :
        /\ "io" \notin DOMAIN conns[c]
        /\ conns[c].state = "hello"
        /\ Step(0, c, [m |-> Cur, conn |-> [io |-> Framed_new(stream, closed)] @@ conns[c]],
                "accept", stream)

\* One turn of client.next(): k bytes have arrived, the read buffer has room.
ClientNext(clients, reads, rooms, challenges) ==
    \E c \in clients, k \in reads, room \in rooms, offsets \in challenges :
        /\ "io" \in DOMAIN conns[c]
        /\ conns[c].state # "closed"
        /\ conns[c].io.pc = "read"
        /\ Step(0, c, next(Cur, conns[c], c, config, offsets,
                           poll_next(conns[c].io, Min(k, Len(conns[c].io.peer)), room)),
                "next", << >>)

\* send_response: the message is encoded.
Send(clients) ==
    \E c \in clients :
        /\ "io" \in DOMAIN conns[c]
        /\ conns[c].io.pc = "send"
        /\ Step(0, c, [m |-> Cur, conn |-> [conns[c] EXCEPT !.io = start_send(@)]],
                "send", << >>)

\* One turn of the flush: the socket takes room bytes now.
Flush(bound, clients, rooms, emitting) ==
    \E c \in clients, room \in rooms, emits \in emitting :
        /\ "io" \in DOMAIN conns[c]
        /\ conns[c].io.pc = "flush"
        /\ Step(bound, c,
                [m |-> Cur,
                 conn |-> [conns[c] EXCEPT !.io = poll_flush_framed(@, room, emits)]],
                "flush", << >>)

(***************************************************************************)
(* One connection at the level of its bytes: the client's hello asks for   *)
(* Zlib, for nothing, or for a compression the server does not know; the   *)
(* bytes that follow the hello's newline (a ping, deflated if the hello    *)
(* asked for Zlib) may arrive with the hello or later, in reads of any     *)
(* size; the socket takes the server's bytes all at once, a few at a time, *)
(* or not now.                                                             *)
(***************************************************************************)
MaxWireOps == 6

WirePing == [type |-> JStr("ping")]
WireHellos ==
    { Hello2,
      Hello2 @@ [compression |-> JStr("Zlib")],
      Hello2 @@ [compression |-> JStr("Lz4")],
      [Hello2 EXCEPT !.version = JInt(3)] @@ [compression |-> JStr("Zlib")],
      [Hello2 EXCEPT !.proto = JStr("http")] @@ [compression |-> JStr("Zlib")] }
WireStream(first) ==
    to_string(first) \o << NL >>
    \o (IF Says(Field(first, "compression"), "Zlib")
        THEN << ZHeader >> \o Deflated(to_string(WirePing) \o << NL >>) \o << ZSync >>
        ELSE to_string(WirePing) \o << NL >>)
WireStreams == { WireStream(first) : first \in WireHellos }
WireOptions ==
    { NoOptions, [NoOptions EXCEPT !.auth_file = Some([readable |-> TRUE, len |-> SecretLen])] }
WireReads == { 0, 1, 3, 4, 8 }
WireRooms == { 2, 8 }
SocketRooms == { 0, 2, 8 }

InitWire == InitState /\ config \in WireOptions /\ disk = NoFiles
WireStartup == Startup({ None })
WireAccept == Accept({1}, WireStreams, BOOLEAN)
WireNext == ClientNext({1}, WireReads, WireRooms, { [i \in 1..NUM_CHALLENGES |-> 0] })
WireSend == Send({1})
WireFlush == Flush(MaxWireOps, {1}, SocketRooms, Emits)

NextWire == WireStartup \/ WireAccept \/ WireNext \/ WireSend \/ WireFlush
SpecWire == InitWire /\ [][NextWire]_vars

Wired(c) == "io" \in DOMAIN conns[c]
AskedZlib(c) ==
    /\ IsSome(conns[c].hello)
    /\ Says(Field(Unwrap(conns[c].hello), "type"), "hello")
    /\ Says(Field(Unwrap(conns[c].hello), "compression"), "Zlib")

\* C26: on a connection whose hello asked for Zlib, the bytes written to the
\* socket are, from the first one on, the bytes the compressor has put out,
\* in order: the stream's header first, and no byte of plain text among
\* them.
C26_EverySentByteIsOfTheZlibStream ==
    \A c \in Clients :
        Wired(c) /\ AskedZlib(c) =>
            /\ \A i \in 1..Len(conns[c].io.sent) : IsZ(conns[c].io.sent[i])
            /\ conns[c].io.sent # << >> => conns[c].io.sent[1] = ZHeader
            /\ conns[c].io.sent
               \o Drop(conns[c].io.writer.buf, conns[c].io.writer.cursor)
               = conns[c].io.writer.zlib.total_out

\* A hello that asked for Zlib has been answered (need_auth, auth_ok or
\* handshake_error), and the answer has reached the socket deflated.
C26_Witness ==
    /\ Wired(1) /\ AskedZlib(1)
    /\ \E json \in { [type |-> "auth_ok"], NeedAuth(0),
                     HandshakeError("version_too_new", SUPPORTED_VERSIONS) } :
           /\ Out(conns[1]) # << >>
           /\ Out(conns[1])[1] = json
           /\ Len(conns[1].io.sent) >= 4
           /\ Take(conns[1].io.sent, 4)
              = << ZHeader, ZData(to_string(json)), ZData(<< NL >>), ZSync >>

\* The bytes of the hello's line in the stream of the client.
HelloLine(t) == Take(t.stream, newline_at(t.stream))
AfterHello(t) == Drop(t.stream, newline_at(t.stream))

\* C27: at every moment the bytes the client has sent are, in their order:
\* without compression, those the decoder has taken, those in the codec's
\* read buffer and those still to be read from the socket; with Zlib, those
\* of the hello's line, taken by the decoder, and then those the inflater
\* has consumed, those waiting in the reader's buffer and those still to be
\* read from the socket, while the decoder's bytes after the hello's line
\* are what the inflater made of its input.
C27_WrappingKeepsEveryReceivedByte ==
    \A c \in Clients :
        Wired(c) =>
            IF conns[c].io.kind = "Zlib"
            THEN /\ conns[c].io.reader.total_in
                    \o Drop(conns[c].io.reader.buf, conns[c].io.reader.cursor)
                    \o conns[c].io.peer
                    = AfterHello(conns[c].io)
                 /\ conns[c].io.taken \o conns[c].io.read_buf
                    = HelloLine(conns[c].io) \o Inflated(conns[c].io.reader.total_in)
            ELSE conns[c].io.taken \o conns[c].io.read_buf \o conns[c].io.peer
                 = conns[c].io.stream

\* The hello asked for Zlib and arrived together with bytes of the deflated
\* stream: after the wrap these are the reader's input, not yet inflated.
C27_Witness ==
    /\ Wired(1) /\ AskedZlib(1)
    /\ conns[1].io.kind = "Zlib"
    /\ conns[1].io.taken = HelloLine(conns[1].io)
    /\ conns[1].io.reader.buf # << >>
    /\ conns[1].io.reader.cursor = 0
    /\ conns[1].io.reader.total_in = << >>
    /\ conns[1].io.read_buf = << >>

\* C28: when a poll of the Zlib reader returns 0 bytes, it has polled the
\* socket, and the socket, with nothing more to come from a peer that has
\* closed, has returned 0 bytes; input that inflates to nothing does not
\* make the reader return 0.
C28_ZeroBytesOnlyAtEndOfStream ==
    \A c \in Clients :
        Wired(c) /\ conns[c].io.kind = "Zlib" /\ conns[c].io.ret.op = "poll_read"
        /\ conns[c].io.ret.poll = Ready(0) =>
            /\ conns[c].io.ret.asked
            /\ conns[c].io.ret.inner = 0
            /\ conns[c].io.ret.ended

\* C29: the plain text the compressor has taken is, byte for byte and in
\* order, the text the encoder has produced less what still waits in the
\* write buffer, and a poll_write that returns Pending has given none of its
\* caller's bytes to the compressor.
C29_WrittenBytesAreCompressedOnce ==
    \A c \in Clients :
        Wired(c) /\ conns[c].io.kind = "Zlib" =>
            /\ conns[c].io.writer.zlib.total_in \o conns[c].io.write_buf
               = conns[c].io.encoded
            /\ conns[c].io.ret.op = "poll_write" /\ conns[c].io.ret.poll = Pending =>
                   conns[c].io.ret.took = << >>

(***************************************************************************)
(* Long lines: the first line of a connection is a hello padded with       *)
(* spaces (white space around a JSON value is allowed) to a length at,     *)
(* just over or well over the limit, and arrives in reads of several       *)
(* sizes.                                                                  *)
(***************************************************************************)
MaxLineOps == 2

Padded(json, n) == to_string(json) \o [i \in 1..(n - 2) |-> SP] \o << NL >>
LineLengths == { 2, 10000, 10001, 10002 }
LineStreams ==
    { Padded(first, n) \o to_string(WirePing) \o << NL >> :
          first \in { Hello2, [Hello2 EXCEPT !.version = JInt(3)] }, n \in LineLengths }
LineReads == { 0, 2002, 4000, 8000 }

LineStartup == Startup({ None })
LineAccept == Accept({1}, LineStreams, BOOLEAN)
LineNext == ClientNext({1}, LineReads, { 8192 }, { << >> })
LineSend == Send({1})
LineFlush == Flush(MaxLineOps, {1}, { 8 }, { "nothing" })

NextLine == LineStartup \/ LineAccept \/ LineNext \/ LineSend \/ LineFlush
SpecLine == Init /\ [][NextLine]_vars

\* The bytes of the stream's first line, without its newline.
LineLength(t) == newline_at(t.stream) - 1

\* C30: a first message is delivered only if its line is at most 10000 bytes
\* long, and the connection fails before its first message only if the line
\* is longer: the outcome is that of the line's length, however the bytes
\* were split into reads.
C30_LongLinesAreNeverDelivered ==
    \A c \in Clients :
        Wired(c) =>
            /\ In(conns[c]) # << >> => LineLength(conns[c].io) <= 10000
            /\ In(conns[c]) = << >> /\ conns[c].state = "closed" =>
                   LineLength(conns[c].io) > 10000

\* C30, amended: the decoder refuses a line only at a call that finds more
\* than 10000 bytes in the buffer and no newline among them, and it leaves
\* no more than 10000 bytes, without a newline, to wait for the next read;
\* a line whose newline is in the buffer is delivered whatever its length.
\* So a line of at most 10000 bytes is never refused, and is delivered once
\* its newline has been read, however the bytes were split into reads.
C30_LinesAreRefusedOnlyWithoutTheirNewline ==
    \A c \in Clients :
        Wired(c) =>
            /\ In(conns[c]) = << >> /\ conns[c].state = "closed" =>
                   /\ Len(conns[c].io.read_buf) > 10000
                   /\ newline_at(conns[c].io.read_buf) = 0
                   /\ LineLength(conns[c].io) > 10000
            /\ conns[c].state = "hello" /\ ~conns[c].io.is_readable =>
                   /\ Len(conns[c].io.read_buf) <= 10000
                   /\ newline_at(conns[c].io.read_buf) = 0
                   /\ Len(conns[c].io.stream) - Len(conns[c].io.peer)
                      <= LineLength(conns[c].io)

\* A line of 10002 bytes has been delivered: its newline came with the read
\* that took the buffer past 10000 bytes.
C30_Witness ==
    /\ Wired(1)
    /\ LineLength(conns[1].io) = 10002
    /\ In(conns[1]) = << Hello2 >>

(***************************************************************************)
(* Stacks: send_packet and recv_packet requests at one point with packets  *)
(* of two elements whose mass is positive and at most the maximum of the   *)
(* phase, on a map that starts empty or with a gas queue one short of      *)
(* full.                                                                   *)
(***************************************************************************)
MaxStackOps == 5

StackPackets ==
    { MatPacket(e, mass, 300, None) : e \in Elements, mass \in { 1, 3, 4 } }

StackFiles ==
    { None,
      Some(<< Tile(<<0, 0>>, None,
                   [i \in 1..(MAX_STORED_PACKETS - 1) |-> MatPacket(2, 4, 300, None)],
                   << >>, << >>) >>) }

StackStartup == Startup(StackFiles)
StackSend == SendPacket(MaxStackOps, {1}, Origin, { "Gas" }, StackPackets)
StackRecv == RecvPacket(MaxStackOps, {1}, Origin, { "Gas" })

NextStacks == StackStartup \/ StackSend \/ StackRecv
SpecStacks == Init /\ [][NextStacks]_vars

\* C31: in every queue, a packet whose mass is below the maximum stack size
\* of the queue's phase is the only such packet of its element, and no
\* packet of its element comes after it.
C31_OneNonFullPacketPerElement ==
    \A ph \in Phases : \A loc \in DOMAIN StoreOf(ph) :
        LET q == StoreOf(ph)[loc]
        IN  \A i \in 1..Len(q) :
               q[i].mass < get_max_stack_size(ph)
               => \A j \in 1..Len(q) :
                     (j # i /\ q[j].element = q[i].element)
                     => (j < i /\ q[j].mass >= get_max_stack_size(ph))

\* C31 witness: an added packet was split: it filled the non-full packet of
\* its element and its rest was appended, behind a packet of the other
\* element, as the new non-full packet.
C31_Witness ==
    /\ last.op = "add_packet"
    /\ last.ret = TRUE
    /\ LET q == Q(last.phase, last.loc)
       IN  /\ Len(q) >= 3
           /\ q[Len(q)].element = last.arg.element
           /\ q[Len(q)].mass < last.arg.mass
           /\ q[Len(q)].mass < get_max_stack_size(last.phase)
           /\ \E i \in 1..(Len(q) - 2) :
                 /\ q[i].element = last.arg.element
                 /\ q[i].mass = get_max_stack_size(last.phase)
                 /\ q[i + 1].element # last.arg.element

(***************************************************************************)
(* Registry: register and unregister requests of two clients at one point, *)
(* with two names, on a map that starts empty.                             *)
(***************************************************************************)
MaxRegistryOps == 5

RegistryNames == { "Pump", "Vent" }

RegistryStartup == Startup({ None })
RegistryRegister == Register(MaxRegistryOps, Clients, Origin, RegistryNames)
RegistryUnregister == Unregister(MaxRegistryOps, Clients, Origin, RegistryNames)

NextRegistry == RegistryStartup \/ RegistryRegister \/ RegistryUnregister
SpecRegistry == Init /\ [][NextRegistry]_vars

\* The number of entries << client_id, what >> in the list of a point.
Entries(regs, loc, pair) ==
    IF loc \in DOMAIN regs
    THEN Cardinality({ i \in 1..Len(regs[loc]) : regs[loc][i] = pair })
    ELSE 0

\* C32 as stated: no point's registration list holds the same
\* (client_id, name) pair twice.
C32_NoPairRegisteredTwice ==
    \A loc \in DOMAIN registrations : \A c \in Clients : \A n \in RegistryNames :
        Entries(registrations, loc, << c, n >>) <= 1

\* C32 as amended: an accepted register adds exactly one entry of its
\* (client_id, name) pair to the point's list, whether or not the list holds
\* the pair already, and an unregister removes every entry of its pair; the
\* entries of every other pair stay as many as they were.
C32_PairCountsFollowTheRequests ==
    [][ \A c \in Clients : \A n \in RegistryNames :
           LET before == Entries(registrations, last'.loc, << c, n >>)
               after == Entries(registrations', last'.loc, << c, n >>)
           IN  /\ (last'.op = "register" /\ last'.arg = << c, n >>) => after = before + 1
               /\ (last'.op = "unregister" /\ last'.arg = << c, n >>) => after = 0
               /\ (last'.op \in { "register", "unregister" } /\ last'.arg # << c, n >>)
                     => after = before ]_vars

\* C32 witness: an unregister removed the three entries of its pair at
\* once, and left an entry of the other client with the same name.
C32_Witness ==
    /\ last.op = "unregister"
    /\ nops = MaxRegistryOps
    /\ Entries(registrations, last.loc, last.arg) = 0
    /\ \E c \in Clients :
          /\ c # last.arg[1]
          /\ registrations[last.loc] = << << c, last.arg[2] >> >>

(***************************************************************************)
(* Tiles: the requests that fill and empty the stores of one point, on a   *)
(* map that starts empty: a bounded number of send_joules, send_packet and *)
(* register requests, and any number of send_object requests and of the    *)
(* requests that take from the stores and that unregister.                 *)
(***************************************************************************)
MaxTileOps == 2

TilePackets == { MatPacket(1, 4, 300, None) }
TileObjects == { base64_encode(<<0>>) }
TileNames == { "Pump" }

\* The requests of the scenario; last keeps which operation was performed,
\* where and in which phase, not its argument and its result.
Quietly(r) == [r EXCEPT !.arg = None, !.ret = TRUE]
TileStep(bound, r) == Serving(bound) /\ Install(Quietly(r))

TileStartup == Startup({ None })
TileSendJoules ==
    \E loc \in Origin : TileStep(MaxTileOps, msg_send_joules(Cur, 1, loc, 5))
TileRecvJoules ==
    \E loc \in Origin : TileStep(0, msg_recv_joules(Cur, 1, loc, 5))
TileSendPacket ==
    \E loc \in Origin, p \in TilePackets :
        TileStep(MaxTileOps, msg_send_packet(Cur, 1, loc, p, "Gas"))
TileRecvPacket ==
    \E loc \in Origin : TileStep(0, msg_recv_packet(Cur, 1, loc, "Gas"))
TileSendObject ==
    \E loc \in Origin, o \in TileObjects : TileStep(0, msg_send_object(Cur, 1, loc, o))
TileRecvObject ==
    \E loc \in Origin : TileStep(0, msg_recv_object(Cur, 1, loc))
TileRegister ==
    \E loc \in Origin, n \in TileNames : TileStep(MaxTileOps, msg_register(Cur, 1, loc, n))
TileUnregister ==
    \E loc \in Origin, n \in TileNames : TileStep(0, msg_unregister(Cur, 1, loc, n))

NextTiles ==
    \/ TileStartup
    \/ TileSendJoules
    \/ TileRecvJoules
    \/ TileSendPacket
    \/ TileRecvPacket
    \/ TileSendObject
    \/ TileRecvObject
    \/ TileRegister
    \/ TileUnregister
SpecTiles == Init /\ [][NextTiles]_vars

\* The clients keep sending the requests that empty a tile and that prune
\* it, and every request that is received is handled.
SpecTilesFair ==
    /\ SpecTiles
    /\ WF_vars(TileRecvJoules)
    /\ WF_vars(TileRecvPacket)
    /\ WF_vars(TileRecvObject)
    /\ WF_vars(TileUnregister)

\* A point that holds nothing, and a point without an entry in any store.
EmptyTile(m, loc) ==
    /\ loc \in DOMAIN m.energy => m.energy[loc] = 0
    /\ loc \in DOMAIN m.gas_packets => m.gas_packets[loc] = << >>
    /\ loc \in DOMAIN m.liquid_packets => m.liquid_packets[loc] = << >>
    /\ loc \in DOMAIN m.objects => m.objects[loc] = << >>
    /\ loc \in DOMAIN m.registrations => m.registrations[loc] = << >>
AbsentTile(m, loc) ==
    /\ loc \notin DOMAIN m.energy
    /\ loc \notin DOMAIN m.gas_packets
    /\ loc \notin DOMAIN m.liquid_packets
    /\ loc \notin DOMAIN m.objects
    /\ loc \notin DOMAIN m.registrations

\* C33 as stated: a point that holds nothing is eventually without an entry
\* in any store, unless it comes to hold something again.
C33_EmptyTilesAreEventuallyRemoved ==
    \A loc \in Origin :
        EmptyTile(Cur, loc) ~> (AbsentTile(Cur, loc) \/ ~EmptyTile(Cur, loc))

\* What a client, a subscriber and the snapshot can tell of a map: the
\* energy, the queues and the registrations of every point, an absent entry
\* read as 0 or as an empty list, the channels of the subscribers, and the
\* file try_save writes.
AmountAt(store, loc) == IF loc \in DOMAIN store THEN store[loc] ELSE 0
Observable(m) ==
    [energy |-> [p \in Points |-> AmountAt(m.energy, p)],
     gas_packets |-> [p \in Points |-> QueueIn(m.gas_packets, p)],
     liquid_packets |-> [p \in Points |-> QueueIn(m.liquid_packets, p)],
     objects |-> [p \in Points |-> QueueIn(m.objects, p)],
     registrations |-> [p \in Points |-> QueueIn(m.registrations, p)],
     registration_senders |-> m.registration_senders,
     saved |-> try_save(m)]

\* The map m with the entry of loc in a store that holds nothing there
\* (no entry, 0 joules or an empty queue) present if the store is named in
\* present, and absent if it is not.
Shaped(store, loc, holds_nothing, zero, here) ==
    IF ~holds_nothing THEN store
    ELSE IF here THEN Put(store, loc, zero)
    ELSE IF loc \in DOMAIN store THEN Remove(store, loc)
    ELSE store
Variant(m, loc, present) ==
    [m EXCEPT !.energy = Shaped(@, loc, AmountAt(@, loc) = 0, 0, "energy" \in present),
              !.gas_packets =
                  Shaped(@, loc, QueueIn(@, loc) = << >>, << >>, "gas_packets" \in present),
              !.liquid_packets =
                  Shaped(@, loc, QueueIn(@, loc) = << >>, << >>,
                         "liquid_packets" \in present),
              !.objects =
                  Shaped(@, loc, QueueIn(@, loc) = << >>, << >>, "objects" \in present)]
Shapes == SUBSET { "energy", "gas_packets", "liquid_packets", "objects" }

\* The same result and the same observable map.
Same(r, s) == r.ret = s.ret /\ Observable(r.m) = Observable(s.m)
Only(m) == [m |-> m, ret |-> TRUE]

\* Every operation of Map gives the same on m and on v.
SameOperations(m, v, loc) ==
    /\ Observable(m) = Observable(v)
    /\ \A amt \in { 0, 5, MAX_STORED_ENERGY } :
          /\ Same(add_joules(m, loc, amt), add_joules(v, loc, amt))
          /\ Same(sub_joules(m, loc, amt), sub_joules(v, loc, amt))
    /\ \A ph \in Phases :
          /\ Same(pop_packet(m, loc, ph), pop_packet(v, loc, ph))
          /\ \A p \in TilePackets :
                Same(add_packet(m, loc, p, ph), add_packet(v, loc, p, ph))
    /\ Same(add_object(m, loc, <<0>>), add_object(v, loc, <<0>>))
    /\ Same(pop_object(m, loc), pop_object(v, loc))
    /\ \A c \in Clients, n \in TileNames :
          /\ Same(register(m, loc, c, n), register(v, loc, c, n))
          /\ Same(Only(unregister(m, loc, c, n)), Only(unregister(v, loc, c, n)))
    /\ \A c \in Clients :
          /\ Same(Only(unregister_all(m, c)), Only(unregister_all(v, c)))
          /\ Same(Only(get_registrations(m, c)), Only(get_registrations(v, c)))

\* C34: on the map as it is, with a subscriber added, and on the same map
\* with the entries of a point that hold nothing made present or absent in
\* any combination, every operation returns the same, posts the same
\* events and leaves the same energy, queues, registrations and snapshot.
C34_EmptyEntriesBehaveAsAbsentOnes ==
    \A loc \in Origin : \A present \in Shapes :
        SameOperations(get_registrations(Cur, 2),
                       Variant(get_registrations(Cur, 2), loc, present), loc)

\* C34 witness: a point with 0 joules and an empty object queue in their
\* entries, no entry for gas, and a registration, so that the map and its
\* variants differ and unregister posts an event and prunes.
C34_Witness ==
    /\ <<0, 0>> \in DOMAIN energy /\ energy[<<0, 0>>] = 0
    /\ <<0, 0>> \in DOMAIN objects /\ objects[<<0, 0>>] = << >>
    /\ <<0, 0>> \notin DOMAIN gas_packets
    /\ <<0, 0>> \in DOMAIN registrations
    /\ Variant(Cur, <<0, 0>>, {}) # Cur
    /\ Variant(Cur, <<0, 0>>, { "gas_packets" }) # Cur
    /\ unregister(Cur, <<0, 0>>, 1, "Pump").energy # energy

(***************************************************************************)
(* Leaving: two clients register and unregister at two points, take energy *)
(* packets and objects from them, and leave, on a map loaded from a        *)
(* snapshot with energy, a gas packet and an object at both points.        *)
(***************************************************************************)
MaxLeaveOps == 4

LeaveFiles ==
    { Some(<< Tile(<<0, 0>>, Some(7), << MatPacket(1, 4, 300, None) >>, << >>,
                   << base64_encode(<<0>>) >>),
              Tile(<<0, 1>>, Some(7), << MatPacket(1, 4, 300, None) >>, << >>,
                   << base64_encode(<<0>>) >>) >>) }

LeaveStartup == Startup(LeaveFiles)
LeaveRegister == Register(MaxLeaveOps, Clients, Points, TileNames)
LeaveUnregister == Unregister(MaxLeaveOps, Clients, Points, TileNames)
LeaveRecvJoules == RecvJoules(MaxLeaveOps, {2}, Points, { 7 })
LeaveRecvPacket == RecvPacket(MaxLeaveOps, {2}, Points, { "Gas" })
LeaveRecvObject == RecvObject(MaxLeaveOps, {2}, Points)
LeaveUnregisterAll == UnregisterAll(MaxLeaveOps, Clients)

NextLeave ==
    \/ LeaveStartup
    \/ LeaveRegister
    \/ LeaveUnregister
    \/ LeaveRecvJoules
    \/ LeaveRecvPacket
    \/ LeaveRecvObject
    \/ LeaveUnregisterAll
SpecLeave == Init /\ [][NextLeave]_vars

\* A store's entry of a point is kept as it is if it holds something.
Kept(before, after, loc, zero) ==
    (loc \in DOMAIN before /\ before[loc] # zero)
    => (loc \in DOMAIN after /\ after[loc] = before[loc])

\* C35: a step of unregister or of unregister_all keeps, at every point,
\* the energy entry that holds more than 0, every gas, liquid and object
\* queue that is not empty and, in order, the registrations of every client
\* but the one the step is for.
C35_UnregisteringKeepsWhatIsStored ==
    [][ last'.op \in { "unregister", "unregister_all" }
        => \A loc \in Points :
              /\ Kept(energy, energy', loc, 0)
              /\ Kept(gas_packets, gas_packets', loc, << >>)
              /\ Kept(liquid_packets, liquid_packets', loc, << >>)
              /\ Kept(objects, objects', loc, << >>)
              /\ \A c \in Clients \ { last'.arg[1] } :
                    RegistrationsOf(registrations', loc, c)
                    = RegistrationsOf(registrations, loc, c) ]_vars

\* C35 witness: client 1 has left; the point (0, 1), where the energy had
\* been taken, was pruned of its energy entry and keeps its packet and its
\* object, (0, 0) keeps its energy, its packet and its object, and client 2
\* its registration.
C35_Witness ==
    /\ last.op = "unregister_all"
    /\ last.arg[1] = 1
    /\ total_taken[<<0, 1>>] > 0
    /\ <<0, 1>> \notin DOMAIN energy
    /\ <<0, 1>> \in DOMAIN gas_packets /\ gas_packets[<<0, 1>>] # << >>
    /\ <<0, 1>> \in DOMAIN objects
    /\ <<0, 0>> \in DOMAIN energy /\ energy[<<0, 0>>] > 0
    /\ <<0, 0>> \in DOMAIN gas_packets /\ gas_packets[<<0, 0>>] # << >>
    /\ <<0, 0>> \in DOMAIN registrations
    /\ registrations[<<0, 0>>] = << << 2, "Pump" >> >>

(***************************************************************************)
(* Owners: two connections in the steady state that register and           *)
(* unregister the same two names at the same point; their loops are busy   *)
(* with the requests and leave the events queued.                          *)
(***************************************************************************)
MaxOwnerOps == 3

OwnerRequests ==
    { [type |-> JStr(t), x |-> JInt(0), y |-> JInt(0), what |-> JStr(n)] :
          t \in { "register", "unregister" }, n \in RegistryNames }

OwnerStartup == Startup({ None })
OwnerHello == Hello(0, Clients, { Hello2 }, { << >> })
OwnerDrain == Drain(0, Clients, { TRUE })
OwnerRequest == Request(MaxOwnerOps, Clients, OwnerRequests, { TRUE })

NextOwners == OwnerStartup \/ OwnerHello \/ OwnerDrain \/ OwnerRequest
SpecOwners == Init /\ [][NextOwners]_vars

\* What was sent on a channel during the step.
HeardInStep(i) ==
    SubSeq(registration_senders'[i].heard, Len(registration_senders[i].heard) + 1,
           Len(registration_senders'[i].heard))

\* C36: an unregister request of a connection leaves the entries of every
\* other client in every list as many as they were and in the same order,
\* those with the request's name at the request's point included, and
\* every subscriber is sent exactly one (false, point, name) event per
\* entry of the requesting client with that name at that point: none for
\* an entry of another client.
C36_UnregisterRemovesOnlyOwnEntries ==
    [][ \A a \in Clients :
          LET message == last'.arg[2]
              loc == << message.x.int, message.y.int >>
              name == message.what.str
          IN  /\ last'.op = "request"
              /\ last'.arg[1] = a
              /\ Says(Field(message, "type"), "unregister")
              => /\ \A b \in Clients \ { a } : \A p \in Points :
                       RegistrationsOf(registrations', p, b)
                       = RegistrationsOf(registrations, p, b)
                 /\ Len(registration_senders') = Len(registration_senders)
                 /\ \A i \in 1..Len(registration_senders) :
                       HeardInStep(i)
                       = [k \in 1..Entries(registrations, loc, << a, name >>) |->
                             Event(FALSE, loc, name)] ]_vars

\* C36 witness: connection 2 has unregistered a name that both connections
\* had registered at the point; the entry of client 1 is still there, and
\* the subscribers were sent one unregistered event, after two registered.
C36_Witness ==
    /\ last.op = "request"
    /\ last.arg[1] = 2
    /\ Says(Field(last.arg[2], "type"), "unregister")
    /\ <<0, 0>> \in DOMAIN registrations
    /\ registrations[<<0, 0>>] = << << 1, last.arg[2].what.str >> >>
    /\ Len(registration_senders) = 2
    /\ \A i \in 1..2 :
          registration_senders[i].heard
          = << Event(TRUE, <<0, 0>>, last.arg[2].what.str),
               Event(TRUE, <<0, 0>>, last.arg[2].what.str),
               Event(FALSE, <<0, 0>>, last.arg[2].what.str) >>

(***************************************************************************)
(* The gate: with and without a secret file, connection 1 shakes hands,    *)
(* answers the challenges and registers and unregisters a building, while  *)
(* connection 2 sends requests in place of its hello and of its answers,   *)
(* a hello the server refuses, wrong answers, or the right ones followed   *)
(* by requests. The map starts with energy at the point.                   *)
(***************************************************************************)
MaxGateOps == 2

GateOptions ==
    { NoOptions,
      [NoOptions EXCEPT !.auth_file = Some([readable |-> TRUE, len |-> SecretLen])] }
GateFiles == { Some(<< Tile(<<0, 0>>, Some(7), << >>, << >>, << >>) >>) }
GateChallenges == { [n \in 1..NUM_CHALLENGES |-> 0] }

GateAnswer == [type |-> JStr("auth"), hash |-> calculated_hash(0, SecretLen)]
GateWrongAnswer == [type |-> JStr("auth"), hash |-> calculated_hash(1, SecretLen)]
GateRegister ==
    [type |-> JStr("register"), x |-> JInt(0), y |-> JInt(0), what |-> JStr("Pump")]
GateRequests ==
    { GateRegister,
      [type |-> JStr("unregister"), x |-> JInt(0), y |-> JInt(0), what |-> JStr("Pump")],
      [type |-> JStr("recv_joules"), x |-> JInt(0), y |-> JInt(0), max_joules |-> JInt(7)],
      [type |-> JStr("send_object"), x |-> JInt(0), y |-> JInt(0),
       object |-> JStr(base64_encode(<< 0 >>))] }
GateBadHello == [type |-> JStr("hello"), proto |-> JStr("oniz"), version |-> JInt(3)]

InitGate == InitState /\ config \in GateOptions /\ disk = NoFiles
GateStartup == Startup(GateFiles)
GateHello ==
    \/ Hello(0, {1}, { Hello2 }, GateChallenges)
    \/ Hello(0, {2}, { Hello2, GateBadHello } \cup GateRequests, GateChallenges)
GateAuth ==
    \/ Auth(0, {1}, { GateAnswer })
    \/ Auth(0, {2}, { GateAnswer, GateWrongAnswer } \cup GateRequests)
GateDrain == Drain(0, Clients, { TRUE })
GateRequest == Request(MaxGateOps, Clients, GateRequests, { TRUE })
GateNotify == Notify(0, {2}, { TRUE })
GateHangup == Hangup(0, {2}, { "eof", "error" })

NextGate ==
    \/ GateStartup
    \/ GateHello
    \/ GateAuth
    \/ GateDrain
    \/ GateRequest
    \/ GateNotify
    \/ GateHangup
SpecGate == InitGate /\ [][NextGate]_vars

\* The messages sent to a connection so far include one of the type.
WasSent(conn, type) == \E i \in 1..Len(Out(conn)) : Out(conn)[i].type = type
\* The types of the messages the server sends before auth_ok or instead.
GateTypes == { "handshake_error", "need_auth", "auth_bad" }

\* C37: a step of a connection that has not been sent auth_ok by the end of
\* the step leaves the stores, the registrations and the subscribers'
\* channels as they are; a connection that has not been sent auth_ok has no
\* channel and has been sent nothing but handshake_error, need_auth and
\* auth_bad; whatever else a connection is sent comes after auth_ok; and a
\* connection that was sent handshake_error or auth_bad is never sent
\* auth_ok.
C37_NothingBeforeAuthOk ==
    [][ \A c \in Clients :
          /\ (last'.op \in { "hello", "auth", "hangup" } /\ last'.arg[1] = c
              /\ ~WasSent(conns'[c], "auth_ok"))
             => /\ mapVars' = mapVars
                /\ registration_senders' = registration_senders
          /\ ~WasSent(conns'[c], "auth_ok")
             => /\ receiver(Cur', c) = << >>
                /\ \A i \in 1..Len(Out(conns'[c])) : Out(conns'[c])[i].type \in GateTypes
          /\ \A i \in 1..Len(Out(conns'[c])) :
                Out(conns'[c])[i].type \notin GateTypes
                => \E j \in 1..i : Out(conns'[c])[j].type = "auth_ok"
          /\ (WasSent(conns'[c], "handshake_error") \/ WasSent(conns'[c], "auth_bad"))
             => ~WasSent(conns'[c], "auth_ok") ]_vars

\* C37 witness: connection 2 sent a register request in place of an answer
\* to a challenge and was closed without a reply, while connection 1,
\* authenticated, holds the only registration and the only channel.
C37_Witness ==
    /\ conns[2].state = "closed"
    /\ last.op = "auth"
    /\ last.arg = << 2, GateRegister >>
    /\ Out(conns[2]) = << NeedAuth(0) >>
    /\ conns[1].state = "steady"
    /\ registrations = (<<0, 0>> :> << << 1, "Pump" >> >>)
    /\ Len(registration_senders) = 1
    /\ energy[<<0, 0>>] = 7

(***************************************************************************)
(* The ends of the i32 range: one connection, in a server with and without *)
(* offset mode (and, with it, a build with and without overflow checks),   *)
(* that receives energy and objects and registers a receiver and a sender  *)
(* at y = 0, y = i32::MAX and y = i32::MIN. The map starts with energy at  *)
(* (0, i32::MIN).                                                          *)
(***************************************************************************)
MaxEdgeOps == 2

EdgeFiles == { Some(<< Tile(<<0, I32_MIN>>, Some(7), << >>, << >>, << >>) >>) }
EdgeRequests ==
    { [type |-> JStr("register"), x |-> JInt(0), y |-> JInt(y), what |-> JStr(n)] :
          y \in OffsetYs, n \in { "GasRecver", "GasSender" } }
    \cup { [type |-> JStr("recv_joules"), x |-> JInt(0), y |-> JInt(y),
            max_joules |-> JInt(3)] : y \in OffsetYs }
    \cup { [type |-> JStr("recv_object"), x |-> JInt(0), y |-> JInt(y)] : y \in OffsetYs }

EdgeStartup == Startup(EdgeFiles)
EdgeHello == Hello(0, {1}, { Hello2 }, { << >> })
EdgeDrain == Drain(0, {1}, { TRUE })
EdgeRequest == Request(MaxEdgeOps, {1}, EdgeRequests, { TRUE })

NextEdge == EdgeStartup \/ EdgeHello \/ EdgeDrain \/ EdgeRequest
SpecEdge == InitOffset /\ [][NextEdge]_vars

\* C38 as stated: in offset mode a recv_joules, recv_packet or recv_object
\* request at (x, y) and a registration of a name that ends in "Recver" act
\* on (x, y + 1), and a registration of a name that ends in "Sender" on
\* (x, y - 1), for every y of the i32 range: the connection goes on, the
\* registration is the new last entry of that point, and no other point
\* changes.
C38_OffsetIsExactAtTheEnds ==
    [][\A c \in Clients :
          last'.op = "request" /\ last'.arg[1] = c /\ config.offset_mode =>
            LET message == last'.arg[2]
                typ == message.type.str
                shift == IF typ # "register" \/ message.what.str \in RecverNames THEN 1
                         ELSE 0 - 1
                loc == << message.x.int, message.y.int + shift >>
            IN  /\ conns'[c].state = "steady"
                /\ \A other \in OffsetPoints \ { loc } : TileAfter(other) = TileAt(other)
                /\ typ = "register" =>
                       TileAfter(loc)[5] = Append(TileAt(loc)[5], << c, message.what.str >>)
      ]_vars

(***************************************************************************)
(* Germs::merge on two populations of one species, with counts from 0 to   *)
(* i32::MAX and fractions from 0 to 1, in a build with and without         *)
(* overflow checks.                                                        *)
(***************************************************************************)
GermCounts == { 0, 1, 5, I32_MAX - 5, I32_MAX - 1, I32_MAX }
GermFracs == { Frac(0, 4), Frac(1, 4), Frac(1, 3), Frac(3, 4), Frac(4, 4) }
GermBuilds == { NoOptions, [NoOptions EXCEPT !.overflow_checks = TRUE] }

InitGerms == InitState /\ config \in GermBuilds /\ disk = NoFiles

\* One call of Germs::merge: last keeps its arguments and what it returned.
MergeGerms ==
    /\ \E a \in GermCounts, b \in GermCounts, f \in GermFracs :
          last' = [op |-> "Germs::merge", loc |-> <<0, 0>>, phase |-> "-",
                   arg |-> << [id |-> 7, count |-> a], [id |-> 7, count |-> b], f >>,
                   ret |-> GermsMergeBuilt(Some([id |-> 7, count |-> a]),
                                           Some([id |-> 7, count |-> b]), f,
                                           config.overflow_checks)]
    /\ UNCHANGED << energy, gas_packets, liquid_packets, objects, registrations,
                    registration_senders, iter_order, conns, config, disk, stage, nops,
                    total_added, total_spare, total_taken >>

NextGerms == MergeGerms
SpecGerms == InitGerms /\ [][NextGerms]_vars

\* The count of an Option<Germs>.
CountIn(g) == IF IsSome(g) THEN Unwrap(g).count ELSE 0

\* C39 as stated: Germs::merge of two populations of one species returns,
\* and the counts of the head and of the tail it returns add up to the sum
\* of the two counts; for a fraction of 1 or more the head holds the whole
\* sum.
C39_GermsMergeKeepsTheCount ==
    last.op = "Germs::merge"
    => /\ IsSome(last.ret)
       /\ CountIn(Unwrap(last.ret)[1]) + CountIn(Unwrap(last.ret)[2])
          = last.arg[1].count + last.arg[2].count
       /\ FracGe1(last.arg[3])
          => CountIn(Unwrap(last.ret)[1]) = last.arg[1].count + last.arg[2].count

(***************************************************************************)
(* The load at startup with every combination of a save file and a backup  *)
(* that is missing, that does not load, or that holds a snapshot; the      *)
(* server then takes requests, saves, may die in the middle of the save,   *)
(* and is started again on the files it left.                              *)
(***************************************************************************)
MaxReloadOps == 2
NewSnapshot == Snapshot(<< SavedTile(<<0, 1>>, Some(7), << >>) >>)
ReloadInits ==
    { [path |-> p, backup |-> b, temp |-> None] :
        p \in { None, Truncated, NewSnapshot }, b \in { None, Truncated, OldSnapshot } }

InitReload == InitState /\ config = NoOptions /\ disk \in ReloadInits
ReloadBoot == Boot
ReloadSendJoules == SendJoules(MaxReloadOps, {1}, Origin, { 6000 })
ReloadRecvJoules == RecvJoules(MaxReloadOps, {1}, Origin, { 6000 })
ReloadTrySave == TrySave({ "ok", "create", "write" })
ReloadRenameBackup == RenameBackup
ReloadRenameTemp == RenameTemp
ReloadCrash == Crash
ReloadRestart == Restart

NextReload ==
    \/ ReloadBoot
    \/ ReloadSendJoules
    \/ ReloadRecvJoules
    \/ ReloadTrySave
    \/ ReloadRenameBackup
    \/ ReloadRenameTemp
    \/ ReloadCrash
    \/ ReloadRestart
SpecReload == InitReload /\ [][NextReload]_vars

\* The map that loading a file gives, and the map of a server that loaded
\* nothing.
Loaded(file) == try_load(Map_new, read_file(Unwrap(file).tiles))
Booted == last.op = "try_load"

\* C40 as stated: the backup is read only when the save file does not
\* exist; when the save file exists and does not load, the server starts
\* with an empty map whatever the backup holds.
C40_BackupOnlyWhenPathIsMissing ==
    (Booted /\ ~loads(disk.path))
    => IF disk.path = None /\ loads(disk.backup)
       THEN Cur = Loaded(disk.backup) /\ last.ret
       ELSE Cur = Map_new /\ ~last.ret

\* C40 as amended: the backup is read whenever the save file did not load,
\* whether it is missing or it exists and fails to load; the server starts
\* with an empty map only when the backup does not load either.
C40_BackupWheneverPathFails ==
    (Booted /\ ~loads(disk.path))
    => IF loads(disk.backup)
       THEN Cur = Loaded(disk.backup) /\ last.ret
       ELSE Cur = Map_new /\ ~last.ret

\* The save file exists and does not load, and the server started with what
\* the backup holds.
C40_Witness ==
    /\ Booted
    /\ IsSome(disk.path) /\ ~loads(disk.path)
    /\ loads(disk.backup)
    /\ Cur = Loaded(disk.backup)
    /\ Cur # Map_new
====
